---------------------------- MODULE Spec2Model ----------------------------
(***************************************************************************)
(* Model of the station view's cargo aggregation tree (CargoDataEntry,     *)
(* CargoSorter) and of the procedures of StationViewWindow that fill it    *)
(* (EstimateDestinations, BuildCargoList), from station_gui.cpp.           *)
(*                                                                         *)
(* A tree is a function from paths to nodes.  A path is the sequence of    *)
(* keys from the root down to the node; the root is the empty path.  The   *)
(* children of the root are keyed by cargo type, all deeper nodes by       *)
(* station id, as the window builds them.  Counts are C++ `uint`; the      *)
(* quantities of the model stay far below 2^32.                            *)
(***************************************************************************)
EXTENDS Integers, Sequences, FiniteSets, TLC

VARIABLES
    tree,      \* the CargoDataEntry tree: path -> [count, num_children, stype, sorder]
    names,     \* Station::GetCachedName of every valid station
    applied,   \* history: path -> sum of the deltas Update() was called with on that node
    last,      \* history: the operation of the last step and the node it was aimed at
    fault,     \* "none", or the way the last InsertOrRetrieve left defined behaviour
    flows,     \* station -> its goods entry for the cargo: NoData, or the shares of the source
    source,    \* the source station of the batch
    stack,     \* the nested calls of EstimateDestinations, the running one last
    batch,     \* the count of the outermost call, or of the packet
    wrapped,   \* history: an unsigned subtraction was given more than it had
    remaining, \* BuildCargoList: what is left of the packet
    it,        \* BuildCargoList: position of dest_it among the destinations; 0 before the loop
    packet,    \* BuildCargoList: cp->Count() of the packet
    shown,     \* history: the (destination, amount) pairs passed to ShowCargo for the packet
    cmp,       \* a call of CargoSorter::operator(): its sorter, its two entries, its results
    veh_order, \* the order SetOrderFlags is aimed at, as the game holds it
    script,    \* the script in SetOrderFlags: where it stands and its callback variables
    expanded_rows,  \* StationViewWindow::expanded_rows, a tree of the rows the user expanded
    displayed_rows, \* StationViewWindow::displayed_rows: the rows of the last paint
    win,       \* the other members of the window and the settings a paint reads
    call       \* a call of a script API function: its inputs and what it came to

treeVars == <<tree, names, applied, last, fault>>
estVars == <<flows, source, stack, batch, wrapped, remaining, it, packet, shown>>
guiVars == <<expanded_rows, displayed_rows, win, call>>
apiVars == <<cmp, veh_order, script, guiVars>>
vars == <<tree, names, applied, last, fault, flows, source, stack, batch, wrapped,
          remaining, it, packet, shown, cmp, veh_order, script,
          expanded_rows, displayed_rows, win, call>>

---------------------------------------------------------------------------
(* Bounds of the model. *)

\* Largest number of nodes created below the root of a tree (the root's num_children).
MaxNodes == 3

\* Largest total of the deltas passed to Update on one tree.
MaxCount == 3

\* Largest batch handed to EstimateDestinations.
MaxBatch == 3

\* Largest cargo packet waiting at the station.
MaxPacket == 3

\* Largest number of entries the destination cache has made before a paint.
MaxCached == 8

\* Largest number of rows the user expands, collapsed ones counted.
MaxClicks == 4

\* Longest order list of a vehicle.
MaxOrders == 4

\* Largest company number of the model.
MaxCompany == 2

\* Largest loan, in loan intervals.
MaxLoanSteps == 2

---------------------------------------------------------------------------
(* Program constants. *)

\* Number of "columns" in the cargo view: cargo, from, via, to; the depth of a tree.
NUM_COLUMNS == 4

\* StationID::Invalid(), the key of the "unknown destination" node.
INVALID_STATION == 65535

\* The stations that exist (Station::IsValidID).
ValidStations == {1, 2}

\* Keys of the station levels and of the cargo level.
StationKeys == ValidStations \cup {INVALID_STATION}
CargoKeys == {0}

\* Namings of the valid stations, a name given by its rank in the natural order of
\* strings: two stations of one name, and names that order the stations against their ids.
Namings == {[s \in ValidStations |-> 1], [s \in ValidStations |-> 3 - s]}

SO_ASCENDING == "asc"
SO_DESCENDING == "desc"
SortOrders == {SO_ASCENDING, SO_DESCENDING}

---------------------------------------------------------------------------
(* Paths. *)

Root == <<>>

Parent(p) == SubSeq(p, 1, Len(p) - 1)

Key(p) == p[Len(p)]

IsPrefix(p, q) == Len(p) <= Len(q) /\ SubSeq(q, 1, Len(p)) = p

\* The nodes from p up to the root, p included.
Ancestors(p) == {SubSeq(p, 1, n) : n \in 0..Len(p)}

Children(t, p) == {q \in DOMAIN t : Len(q) = Len(p) + 1 /\ IsPrefix(p, q)}

Subtree(t, p) == {q \in DOMAIN t : IsPrefix(p, q)}

RECURSIVE SumOver(_, _)
SumOver(S, f) ==
    IF S = {} THEN 0
    ELSE LET x == CHOOSE y \in S : TRUE IN f[x] + SumOver(S \ {x}, f)

KeysAt(p) == IF p = Root THEN CargoKeys ELSE StationKeys

---------------------------------------------------------------------------
(* CargoSorter. An entry is [key, count, cargoKeyed]. *)

IsValidID(st) == st \in ValidStations

Entry(t, q) == [key |-> Key(q), count |-> t[q].count, cargoKeyed |-> Len(q) = 1]

\* A synthetic entry which only contains the id: CargoDataEntry(StationID) / (CargoType).
Synthetic(p, k) == [key |-> k, count |-> 0, cargoKeyed |-> p = Root]

GetStation(e) == e.key

\* The cargo member shares its storage with the station id: of an entry made
\* for a station it is the first byte of the id, the low one on the machines
\* the game is built for; a cargo type is one byte in any case.
GetCargo(e) == e.key % 256

\* Natural comparison of two display names: negative, zero or positive.
StrNaturalCompare(n1, n2) == n1 - n2

SortId(order, st1, st2) == IF order = SO_ASCENDING THEN st1 < st2 ELSE st2 < st1

SortStationOneSided(nm, order, st1, st2) ==
    IF ~IsValidID(st1)
    THEN IF IsValidID(st2) THEN order = SO_ASCENDING ELSE SortId(order, st1, st2)
    ELSE IF ~IsValidID(st2)
    THEN order = SO_ASCENDING
    ELSE LET res == StrNaturalCompare(nm[st1], nm[st2]) IN
         IF res = 0 THEN SortId(order, st1, st2)
         ELSE IF order = SO_ASCENDING THEN res < 0 ELSE res > 0

SortStation(nm, order, st1, st2) ==
    IF ~IsValidID(st1)
    THEN IF IsValidID(st2) THEN order = SO_ASCENDING ELSE SortId(order, st1, st2)
    ELSE IF ~IsValidID(st2)
    THEN order = SO_DESCENDING
    ELSE LET res == StrNaturalCompare(nm[st1], nm[st2]) IN
         IF res = 0 THEN SortId(order, st1, st2)
         ELSE IF order = SO_ASCENDING THEN res < 0 ELSE res > 0

SortCountNoTieBreak(nm, order, cd1, cd2) ==
    IF order = SO_ASCENDING THEN cd1.count < cd2.count ELSE cd2.count < cd1.count

SortCountTieById(nm, order, cd1, cd2) ==
    IF cd1.count = cd2.count
    THEN SortId(order, GetStation(cd1), GetStation(cd2))
    ELSE IF order = SO_ASCENDING THEN cd1.count < cd2.count ELSE cd2.count < cd1.count

SortCount(nm, order, cd1, cd2) ==
    IF cd1.count = cd2.count
    THEN SortStation(nm, order, GetStation(cd1), GetStation(cd2))
    ELSE IF order = SO_ASCENDING THEN cd1.count < cd2.count ELSE cd2.count < cd1.count

\* CargoSorter::operator(): cd1 goes before cd2.
Before(nm, stype, order, cd1, cd2) ==
    CASE stype = "StationID" -> SortId(order, GetStation(cd1), GetStation(cd2))
      [] stype = "CargoType" -> SortId(order, GetCargo(cd1), GetCargo(cd2))
      [] stype = "Count" -> SortCount(nm, order, cd1, cd2)
      [] stype = "StationString" -> SortStation(nm, order, GetStation(cd1), GetStation(cd2))

\* Equivalence of two entries for a std::set ordered by that sorter.
Equivalent(nm, stype, order, cd1, cd2) ==
    /\ ~Before(nm, stype, order, cd1, cd2)
    /\ ~Before(nm, stype, order, cd2, cd1)

\* children->find(entry): the children of p equivalent to the entry.
Find(t, nm, p, e) ==
    {q \in Children(t, p) : Equivalent(nm, t[p].stype, t[p].sorder, Entry(t, q), e)}

---------------------------------------------------------------------------
(* CargoDataEntry. *)

\* CargoDataEntry(): the root, its children ordered by cargo type.
RootNode == [count |-> 0, num_children |-> 0, stype |-> "CargoType", sorder |-> SO_ASCENDING]

\* CargoDataEntry(id, 0, parent): children ordered by CargoSorter()'s defaults.
NewNode == [count |-> 0, num_children |-> 0, stype |-> "StationID", sorder |-> SO_ASCENDING]

EmptyTree == (Root :> RootNode)

\* IncrementSize on p: p and every ancestor count one more node.
IncrementSize(t, p) ==
    [q \in DOMAIN t |->
        IF q \in Ancestors(p) THEN [t[q] EXCEPT !.num_children = @ + 1] ELSE t[q]]

\* The tree after InsertOrRetrieve(k) on p has created the child.
InsertChild(t, p, k) ==
    LET c == Append(p, k)
        u == IncrementSize(t, p)
    IN [q \in DOMAIN t \cup {c} |-> IF q = c THEN NewNode ELSE u[q]]

UpdateNoPropagate(t, p, n) == [t EXCEPT ![p].count = @ + n]

\* Update(n) on p: p and every ancestor gain n.
Update(t, p, n) ==
    [q \in DOMAIN t |->
        IF q \in Ancestors(p) THEN [t[q] EXCEPT !.count = @ + n] ELSE t[q]]

\* The count q holds when its destructor subtracts it from its parent: its
\* children were destroyed first, and each took its own count off q.
RECURSIVE Residual(_, _)
Residual(t, q) ==
    t[q].count - SumOver(Children(t, q), [c \in Children(t, q) |-> Residual(t, c)])

\* Clear() on p.
Clear(t, p) ==
    LET r == Residual(t, p)
        keep == {q \in DOMAIN t : ~(IsPrefix(p, q) /\ q # p)}
    IN [q \in keep |->
          IF q = p THEN [t[q] EXCEPT !.count = 0, !.num_children = 0]
          ELSE IF p # Root /\ q = Parent(p) THEN [t[q] EXCEPT !.count = @ - r]
          ELSE t[q]]

\* ~CargoDataEntry of the children in D of one node p: each runs Clear().
Destroy(t, p, D) ==
    LET r == SumOver(D, [c \in D |-> Residual(t, c)])
        keep == {q \in DOMAIN t : \A c \in D : ~IsPrefix(c, q)}
    IN [q \in keep |-> IF q = p THEN [t[q] EXCEPT !.count = @ - r] ELSE t[q]]

\* Remove(k) on p.
Remove(t, nm, p, k) ==
    LET found == Find(t, nm, p, Synthetic(p, k)) IN
    IF found = {} THEN t ELSE Destroy(t, p, {CHOOSE c \in found : TRUE})

RetrieveAny(t, nm, p, k) ==
    IF Children(t, p) = {} THEN {} ELSE {CHOOSE c \in Children(t, p) : TRUE}

\* Retrieve(k) on p: the child find() comes up with, or none (nullptr).
Retrieve(t, nm, p, k) ==
    LET found == Find(t, nm, p, Synthetic(p, k)) IN
    IF found = {} THEN {} ELSE {CHOOSE c \in found : TRUE}

\* InsertOrRetrieve(k) on p: a child is made only if find() comes up with none.
\* Where the children are ordered by their own kind of id, the entry it returns
\* is Append(p, k).
InsertOrRetrieve(t, nm, p, k) ==
    IF Find(t, nm, p, Synthetic(p, k)) = {} THEN InsertChild(t, p, k) ELSE t

\* The children of p in the order of iteration, Begin() to End().
RECURSIVE InOrder(_, _, _, _)
InOrder(t, nm, p, S) ==
    IF S = {} THEN <<>>
    ELSE LET first == CHOOSE a \in S : \A b \in S \ {a} :
                          ~Before(nm, t[p].stype, t[p].sorder, Entry(t, b), Entry(t, a))
         IN <<first>> \o InOrder(t, nm, p, S \ {first})

ChildSeq(t, nm, p) == InOrder(t, nm, p, Children(t, p))

---------------------------------------------------------------------------
(* The flow data of the stations, for one cargo and one source. *)

\* The sizes a share of a flow may have.
ShareSizes == {1, 4}

\* A goods entry without data (GoodsEntry::HasData is false).
NoData == [hasData |-> FALSE, shares |-> [v \in StationKeys |-> 0]]

\* A goods entry with data: the source's shares in its flow map, next hop -> size,
\* all 0 when the flow map has no entry for the source.
WithData == {[hasData |-> TRUE, shares |-> sh] : sh \in [StationKeys -> {0} \cup ShareSizes]}

---------------------------------------------------------------------------
(* Operations on the tree. *)

NoOp == [op |-> "none", path |-> Root]

\* No comparison is asked for.
NoCmp == [stype |-> "none"]

\* No vehicle has orders.
NoOrder == [valid |-> FALSE]

\* No script runs.
NoScript == [pc |-> "idle"]

\* No window is painted or clicked, and no API function is called.
NoWin == [mode |-> "none"]
NoCall == [fn |-> "none"]
NoGui ==
    /\ expanded_rows = (<<>> :> [count |-> 0, num_children |-> 0, stype |-> "CargoType",
                                 sorder |-> "asc"])
    /\ displayed_rows = <<>>
    /\ win = NoWin
    /\ call = NoCall

\* No estimate is running.
NoEstimate ==
    /\ flows = [st \in ValidStations |-> NoData]
    /\ source = INVALID_STATION
    /\ stack = <<>>
    /\ batch = 0
    /\ wrapped = FALSE
    /\ remaining = 0
    /\ it = 0
    /\ packet = 0
    /\ shown = <<>>

\* Nothing but the tree is at work.
Idle ==
    /\ NoEstimate
    /\ NoGui
    /\ cmp = NoCmp
    /\ veh_order = NoOrder
    /\ script = NoScript

InitTree ==
    /\ tree = EmptyTree
    /\ names \in Namings
    /\ applied = (Root :> 0)
    /\ last = NoOp
    /\ fault = "none"
    /\ Idle

\* The names play no part while no child set is re-sorted.
InitGrow ==
    /\ tree = EmptyTree
    /\ names = [s \in ValidStations |-> 1]
    /\ applied = (Root :> 0)
    /\ last = NoOp
    /\ fault = "none"
    /\ Idle

DoInsertOrRetrieve(p, k) ==
    LET found == Find(tree, names, p, Synthetic(p, k)) IN
    /\ last' = [op |-> "InsertOrRetrieve", path |-> Append(p, k)]
    /\ IF found = {}
       THEN IF Append(p, k) \in DOMAIN tree
            THEN \* a child with this key is in the set, out of find's reach
                 /\ fault' = "duplicate"
                 /\ UNCHANGED tree
            ELSE /\ tree' = InsertChild(tree, p, k)
                 /\ UNCHANGED fault
       ELSE /\ fault' = IF tree[p].stype = "Count" THEN "assert" ELSE "none"
            /\ UNCHANGED tree

\* InsertOrRetrieve(k) on p, for every node p and key k of its level.
CanInsert(p, k) ==
    /\ fault = "none"
    /\ Len(p) < NUM_COLUMNS
    /\ Append(p, k) \in DOMAIN tree \/ tree[Root].num_children < MaxNodes

\* Update(n) on p, for every node p.
DoUpdate(p, n) ==
    /\ fault = "none"
    /\ tree[Root].count + n <= MaxCount
    /\ tree' = Update(tree, p, n)
    /\ last' = [op |-> "Update", path |-> p]
    /\ UNCHANGED <<names, apiVars, fault, estVars>>

InsertOrRetrieveAct ==
    \E p \in DOMAIN tree : \E k \in KeysAt(p) :
        /\ CanInsert(p, k)
        /\ DoInsertOrRetrieve(p, k)
        /\ UNCHANGED <<names, apiVars, applied, estVars>>

UpdateAct ==
    \E p \in DOMAIN tree : \E n \in 1..MaxCount :
        /\ DoUpdate(p, n)
        /\ UNCHANGED applied

\* The same two operations, with the deltas recorded.
GrowInsert ==
    \E p \in DOMAIN tree : \E k \in KeysAt(p) :
        /\ CanInsert(p, k)
        /\ DoInsertOrRetrieve(p, k)
        /\ applied' = [q \in DOMAIN tree' |-> IF q \in DOMAIN tree THEN applied[q] ELSE 0]
        /\ UNCHANGED <<names, apiVars, estVars>>

GrowUpdate ==
    \E p \in DOMAIN tree : \E n \in 1..MaxCount :
        /\ DoUpdate(p, n)
        /\ applied' = [applied EXCEPT ![p] = @ + n]

NextGrow == GrowInsert \/ GrowUpdate

\* Trees that only grow: InsertOrRetrieve and Update.
SpecGrow == InitGrow /\ [][NextGrow]_vars

(* C1: on a tree that has only seen InsertOrRetrieve and Update, every      *)
(* node's count, the root's included, is the sum of the deltas applied to   *)
(* it and to its descendants.                                               *)
C1_CountIsSumOfDeltas ==
    \A p \in DOMAIN tree :
        tree[p].count = SumOver(Subtree(tree, p), [q \in Subtree(tree, p) |-> applied[q]])

\* Two tuples of 2 and 1 that share the path above them: 3 on every node above.
C1_Witness ==
    \E p \in DOMAIN tree : \E a, b \in Children(tree, p) :
        /\ p # Root /\ a # b
        /\ applied[a] = 2 /\ applied[b] = 1
        /\ tree[a].count = 2 /\ tree[b].count = 1
        /\ \A q \in Ancestors(p) : tree[q].count = 3

---------------------------------------------------------------------------
(* The whole interface of the tree: Remove, Clear and Resort as well. *)

ResortLossy(t, nm, p, stype, order, K) ==
    LET lost == IF K = {} THEN {} ELSE {CHOOSE c \in K : TRUE} IN
    [Destroy(t, p, (Children(t, p) \ K) \cup lost)
        EXCEPT ![p].stype = stype, ![p].sorder = order]

\* Resort(type, order) on p: merge() moves every child the new set takes, i.e.
\* that is not equivalent to one it already holds; the others stay in the old
\* set and die with it. K is the set of children that move.
Resort(t, nm, p, stype, order, K) ==
    [Destroy(t, p, Children(t, p) \ K) EXCEPT ![p].stype = stype, ![p].sorder = order]

Merged(t, nm, p, stype, order, K) ==
    /\ \A a, b \in K : a # b => ~Equivalent(nm, stype, order, Entry(t, a), Entry(t, b))
    /\ \A d \in Children(t, p) \ K :
          \E a \in K : Equivalent(nm, stype, order, Entry(t, a), Entry(t, d))

RemoveAct ==
    \E p \in DOMAIN tree : \E k \in KeysAt(p) :
        /\ fault = "none"
        /\ Len(p) < NUM_COLUMNS
        /\ tree' = Remove(tree, names, p, k)
        /\ last' = [op |-> "Remove", path |-> Append(p, k)]
        /\ UNCHANGED <<names, apiVars, applied, fault, estVars>>

ClearAct ==
    \E p \in DOMAIN tree :
        /\ fault = "none"
        /\ tree' = Clear(tree, p)
        /\ last' = [op |-> "Clear", path |-> p]
        /\ UNCHANGED <<names, apiVars, applied, fault, estVars>>

\* DrawEntries re-sorts the station-keyed child sets, by count or by name, a
\* node before its children; the columns below the cargo column all have the
\* same sort type and sort order.
ResortAct ==
    \E p \in DOMAIN tree \ {Root} : \E stype \in {"Count", "StationString"} :
    \E order \in SortOrders : \E K \in SUBSET Children(tree, p) :
        /\ fault = "none"
        /\ Len(p) < NUM_COLUMNS
        /\ \A q \in DOMAIN tree :
              tree[q].stype \in {"Count", "StationString"}
                  => tree[q].stype = stype /\ tree[q].sorder = order
        /\ Len(p) > 1 => tree[Parent(p)].stype = stype
        /\ Merged(tree, names, p, stype, order, K)
        /\ tree' = Resort(tree, names, p, stype, order, K)
        /\ last' = [op |-> "Resort", path |-> p,
                    again |-> (last.op = "Resort" /\ last.path = p
                               /\ tree[p].stype = stype /\ tree[p].sorder = order)]
        /\ UNCHANGED <<names, apiVars, applied, fault, estVars>>

\* The window gives amounts to the nodes at the end of a chain of
\* InsertOrRetrieve calls: a node that is given an amount has no children, and
\* a node that gets a child holds no amount of its own.
LeafInsert ==
    \E p \in DOMAIN tree : \E k \in KeysAt(p) :
        /\ Children(tree, p) # {} \/ tree[p].count = 0
        /\ CanInsert(p, k)
        /\ DoInsertOrRetrieve(p, k)
        /\ UNCHANGED <<names, apiVars, applied, estVars>>

LeafUpdate ==
    \E p \in DOMAIN tree : \E n \in 1..MaxCount :
        /\ Children(tree, p) = {}
        /\ DoUpdate(p, n)
        /\ UNCHANGED applied

Next == LeafInsert \/ LeafUpdate \/ RemoveAct \/ ClearAct

\* Trees filled that way, under Remove and Clear.
Spec == InitGrow /\ [][Next]_vars

(* C2: after every mutation, every node that has at least one child has a   *)
(* count equal to the sum of its children's counts.                         *)
C2_CountIsSumOfChildren ==
    \A p \in DOMAIN tree :
        Children(tree, p) # {}
            => tree[p].count
                 = SumOver(Children(tree, p), [c \in Children(tree, p) |-> tree[c].count])

(* C3: a step Clear() on a node N with parent P leaves N with no children,  *)
(* count 0 and descendant counter 0, and P's count at its former value      *)
(* minus N's former count.                                                  *)
C3_ClearSubtractsOnce ==
    [][last'.op = "Clear" /\ last'.path # Root
         => LET p == last'.path IN
            /\ Children(tree', p) = {}
            /\ tree'[p].count = 0
            /\ tree'[p].num_children = 0
            /\ tree'[Parent(p)].count = tree[Parent(p)].count - tree[p].count]_vars

(* C4: a step Remove(key) erases the child with that key and its subtree    *)
(* and takes the child's count off the node and off every ancestor up to    *)
(* the root; Remove of an absent key changes nothing.                       *)
C4_RemoveSubtractsFromAncestors ==
    [][last'.op = "Remove"
         => LET c == last'.path IN
            IF c \in DOMAIN tree
            THEN /\ \A q \in DOMAIN tree' : ~IsPrefix(c, q)
                 /\ \A a \in Ancestors(Parent(c)) :
                       tree'[a].count = tree[a].count - tree[c].count
            ELSE tree' = tree]_vars

\* OnPaint fills a tree (BuildCargoList) and only then re-sorts its child sets
\* (DrawEntries); the tree is gone when OnPaint returns.
Drawing == \E q \in DOMAIN tree : tree[q].stype \in {"Count", "StationString"}

BuildInsert == ~Drawing /\ InsertOrRetrieveAct

BuildUpdate == ~Drawing /\ UpdateAct

NextSort == BuildInsert \/ BuildUpdate \/ ResortAct

\* Trees that are filled and then re-sorted, under every naming of the stations.
SpecSort == InitTree /\ [][NextSort]_vars


(* C10: a step Resort(type, order), type Count or StationString, on a node  *)
(* whose children are keyed by pairwise distinct stations keeps the set of  *)
(* nodes, every count and descendant counter, and every node but the        *)
(* re-sorted one as it was.                                                 *)
C10_ResortKeepsChildren ==
    [][last'.op = "Resort"
         => LET p == last'.path IN
            /\ DOMAIN tree' = DOMAIN tree
            /\ \A q \in DOMAIN tree :
                  /\ tree'[q].count = tree[q].count
                  /\ tree'[q].num_children = tree[q].num_children
                  /\ q # p => tree'[q] = tree[q]]_vars

\* A node re-sorted by count that has two children of one count.
C10_Witness ==
    /\ last.op = "Resort"
    /\ tree[last.path].stype = "Count"
    /\ \E a, b \in Children(tree, last.path) : a # b /\ tree[a].count = tree[b].count

---------------------------------------------------------------------------
(* EstimateDestinations(cargo, source, next, count, dest).  A frame of the   *)
(* stack is one call: [next, count, i, sum], i the position of the loop in  *)
(* tmp (0: the call has not looked at its arguments yet) and sum its        *)
(* sum_estimated.  dest is the via entry RecalcDestinations made for        *)
(* (source, next) in the destination cache; last.path keeps its path.       *)

\* Deterministic approximate division.
DivideApprox(a, b) == a \div b

\* tmp: one child per next hop of the source's shares at station st, in the
\* order of the root's sorter, which compares the cargo byte of the entries
\* (the stations of the model differ in that byte).
RECURSIVE ByCargoByte(_, _)
ByCargoByte(sh, S) ==
    IF S = {} THEN <<>>
    ELSE LET first == CHOOSE a \in S : \A b \in S : a % 256 <= b % 256
         IN <<[station |-> first, count |-> sh[first]]>> \o ByCargoByte(sh, S \ {first})

Tmp(st) == ByCargoByte(flows[st].shares, {v \in StationKeys : flows[st].shares[v] > 0})

\* tmp.GetCount()
TmpCount(st) == SumOver(StationKeys, flows[st].shares)

\* One pass of the inner loop without the cut at count.
EstimateStepNoClamp(childCount, count, total, sum) ==
    LET d == DivideApprox(childCount * count, total)
        e == IF d = 0 THEN 1 ELSE d
    IN [estimate |-> e, sum |-> sum + e, over |-> 0]

\* One pass of the inner loop: the estimate for a child of tmp and the new
\* sum_estimated; over is what `estimate -= sum_estimated - count` subtracts.
EstimateStep(childCount, count, total, sum) ==
    LET d == DivideApprox(childCount * count, total)
        e == IF d = 0 THEN 1 ELSE d
    IN IF sum + e > count
       THEN [estimate |-> e - (sum + e - count), sum |-> count, over |-> sum + e - count]
       ELSE [estimate |-> e, sum |-> sum + e, over |-> 0]

\* dest.InsertOrRetrieve(k).Update(n)
AddToDest(t, nm, dest, k, n) == Update(InsertOrRetrieve(t, nm, dest, k), Append(dest, k), n)

\* The via entry of the destination cache for (source, via), as RecalcDestinations makes it.
ViaEntry(nm, src, via) ==
    LET t1 == InsertOrRetrieve(EmptyTree, nm, Root, 0)
        t2 == InsertOrRetrieve(t1, nm, <<0>>, src)
    IN InsertOrRetrieve(t2, nm, <<0, src>>, via)

Top == stack[Len(stack)]

Pop == SubSeq(stack, 1, Len(stack) - 1)

Dest == last.path

\* No call runs inside a call with the same arguments.
NoNesting ==
    \A i, j \in 1..Len(stack) :
        i < j => ~(stack[i].next = stack[j].next /\ stack[i].count = stack[j].count)

\* A call is running; one nested in itself never gets any further.
Estimating == stack # <<>> /\ NoNesting

\* The call has flow data to go by.
HasFlowData(f) ==
    /\ IsValidID(f.next) /\ IsValidID(source)
    /\ flows[f.next].hasData
    /\ TmpCount(f.next) > 0

InitCache ==
    /\ names = [s \in ValidStations |-> 1]
    /\ applied = (Root :> 0)
    /\ fault = "none"
    /\ flows \in [ValidStations -> {NoData} \cup WithData]
    /\ source \in {1, INVALID_STATION}
    /\ batch \in 1..MaxBatch
    /\ \E next \in StationKeys :
          /\ stack = <<[next |-> next, count |-> batch, i |-> 0, sum |-> 0]>>
          /\ last = [op |-> "EstimateDestinations", path |-> <<0, source, next>>]
          /\ tree = ViaEntry(names, source, next)
    /\ wrapped = FALSE
    /\ remaining = 0
    /\ it = 0
    /\ packet = 0
    /\ shown = <<>>
    /\ NoGui
    /\ cmp = NoCmp
    /\ veh_order = NoOrder
    /\ script = NoScript

\* source or next is no station: the batch goes to the unknown destination.
EstInvalid ==
    /\ Estimating /\ Top.i = 0
    /\ ~(IsValidID(Top.next) /\ IsValidID(source))
    /\ tree' = AddToDest(tree, names, Dest, INVALID_STATION, Top.count)
    /\ stack' = Pop
    /\ UNCHANGED <<names, apiVars, applied, last, fault, flows, source, batch, wrapped,
                   remaining, it, packet, shown>>

\* if (!ge.HasData()) return;
EstNoData ==
    /\ Estimating /\ Top.i = 0
    /\ IsValidID(Top.next) /\ IsValidID(source)
    /\ ~flows[Top.next].hasData
    /\ stack' = Pop
    /\ UNCHANGED <<tree, names, apiVars, applied, last, fault, flows, source, batch, wrapped,
                   remaining, it, packet, shown>>

\* tmp.GetCount() == 0: the batch goes to the unknown destination.
EstNoShares ==
    /\ Estimating /\ Top.i = 0
    /\ IsValidID(Top.next) /\ IsValidID(source)
    /\ flows[Top.next].hasData
    /\ TmpCount(Top.next) = 0
    /\ tree' = AddToDest(tree, names, Dest, INVALID_STATION, Top.count)
    /\ stack' = Pop
    /\ UNCHANGED <<names, apiVars, applied, last, fault, flows, source, batch, wrapped,
                   remaining, it, packet, shown>>

\* The call starts its loops.
EstLoop ==
    /\ Estimating /\ Top.i = 0
    /\ HasFlowData(Top)
    /\ stack' = [stack EXCEPT ![Len(stack)].i = 1]
    /\ UNCHANGED <<tree, names, apiVars, applied, last, fault, flows, source, batch, wrapped,
                   remaining, it, packet, shown>>

\* The child of tmp the inner loop stands at.
PassChild == Tmp(Top.next)[Top.i]

\* What the pass works out for it.
PassStep == EstimateStep(PassChild.count, Top.count, TmpCount(Top.next), Top.sum)

\* The caller after the pass: ++i, and after the last child the outer loop
\* starts the inner one over.
Advance ==
    [Top EXCEPT !.sum = PassStep.sum,
                !.i = IF Top.i = Len(Tmp(Top.next)) THEN 1 ELSE Top.i + 1]

\* The child is the next hop itself: the estimate ends there.
EstDirect ==
    /\ Estimating /\ Top.i > 0 /\ Top.sum < Top.count
    /\ PassChild.station = Top.next
    /\ wrapped' = (wrapped \/ PassStep.over > PassStep.estimate + PassStep.over)
    /\ stack' = Append(Pop, Advance)
    /\ tree' = IF PassStep.estimate > 0
               THEN AddToDest(tree, names, Dest, Top.next, PassStep.estimate)
               ELSE tree
    /\ UNCHANGED <<names, apiVars, applied, last, fault, flows, source, batch,
                   remaining, it, packet, shown>>

\* The child is another station: EstimateDestinations for it.
EstRecurse ==
    /\ Estimating /\ Top.i > 0 /\ Top.sum < Top.count
    /\ PassChild.station # Top.next
    /\ wrapped' = (wrapped \/ PassStep.over > PassStep.estimate + PassStep.over)
    /\ stack' = IF PassStep.estimate > 0
                THEN Append(Pop, Advance) \o
                     <<[next |-> PassChild.station, count |-> PassStep.estimate,
                        i |-> 0, sum |-> 0]>>
                ELSE Append(Pop, Advance)
    /\ UNCHANGED <<tree, names, apiVars, applied, last, fault, flows, source, batch,
                   remaining, it, packet, shown>>

\* sum_estimated has reached count.
EstReturn ==
    /\ Estimating /\ Top.i > 0 /\ Top.sum >= Top.count
    /\ stack' = Pop
    /\ UNCHANGED <<tree, names, apiVars, applied, last, fault, flows, source, batch, wrapped,
                   remaining, it, packet, shown>>

---------------------------------------------------------------------------
(* BuildCargoList for one packet whose (origin, next hop) has the via entry *)
(* Dest in the destination cache.                                           *)

\* The destinations of the via entry, Begin() to End().
Dests == ChildSeq(tree, names, Dest)

Min(a, b) == IF a < b THEN a ELSE b

\* The amount for every destination alike, the last one too.
ApportionValNoRemainder(isLast, rem, cnt, destCount, total) ==
    Min(rem, DivideApprox(cnt * destCount, total))

\* val for one destination.
ApportionVal(isLast, rem, cnt, destCount, total) ==
    IF isLast THEN rem ELSE Min(rem, DivideApprox(cnt * destCount, total))

\* uint remaining = cp->Count();
PacketBegin ==
    /\ stack = <<>> /\ last.op = "EstimateDestinations"
    /\ \E n \in 1..MaxPacket :
          /\ packet' = n
          /\ remaining' = n
    /\ it' = 1
    /\ last' = [last EXCEPT !.op = "BuildCargoList"]
    /\ UNCHANGED <<tree, names, apiVars, applied, fault, flows, source, stack, batch, wrapped, shown>>

\* One pass of the loop over the destinations of the via entry.
PacketPass ==
    /\ last.op = "BuildCargoList" /\ it >= 1 /\ it <= Len(Dests)
    /\ LET d == Dests[it]
           isLast == it = Len(Dests)
           val == ApportionVal(isLast, remaining, packet, tree[d].count, tree[Dest].count)
       IN /\ remaining' = IF isLast THEN remaining ELSE remaining - val
          /\ wrapped' = (wrapped \/ val > remaining)
          /\ shown' = Append(shown, [dest |-> Key(d), val |-> val])
    /\ it' = it + 1
    /\ UNCHANGED <<tree, names, apiVars, applied, last, fault, flows, source, stack, batch, packet>>

NextCache ==
    \/ EstInvalid \/ EstNoData \/ EstNoShares \/ EstLoop
    \/ EstDirect \/ EstRecurse \/ EstReturn
    \/ PacketBegin \/ PacketPass

\* The destination cache: one estimate for every flow data of the stations,
\* then one waiting packet shared out over the destinations it found.
SpecCache == InitCache /\ [][NextCache]_vars

\* Every call that can go on does.
SpecCacheLive == SpecCache /\ WF_vars(NextCache)

\* The estimate is over and nothing is left on the stack.
Returned == stack = <<>>

(* C5: a call of EstimateDestinations that returns has added exactly count  *)
(* to dest, whatever the flows of the stations it reached.                  *)
C5_EstimateAddsCount == Returned => tree[Dest].count = batch

\* A call about to take a way out that has no flow data to go by.
Terminal == Estimating /\ Top.i = 0 /\ ~HasFlowData(Top)

CountAt(t, p) == IF p \in DOMAIN t THEN t[p].count ELSE 0

(* C7: a call without flow data (source or next no station, no goods data  *)
(* at next, no shares for the source) adds its whole count to dest's child *)
(* for the invalid station.                                                 *)
C7_TerminalGoesToInvalid ==
    [][Terminal =>
         CountAt(tree', Append(Dest, INVALID_STATION))
             = CountAt(tree, Append(Dest, INVALID_STATION)) + Top.count]_vars

(* C6: EstimateDestinations returns for every flow configuration, also     *)
(* when two stations route the source's cargo to each other.                *)
C6_EstimateTerminates == <>Returned

\* The loop over the destinations of the packet is over.
PacketDone == last.op = "BuildCargoList" /\ it > Len(Dests)

\* What the first n calls of ShowCargo were given together.
SumShown(n) == SumOver(1..n, [j \in 1..n |-> shown[j].val])

(* C8: over a via entry with a destination and a positive total the amounts *)
(* given to ShowCargo add up to the packet: every destination but the last  *)
(* gets its share, the last gets the rest, a single one gets everything.    *)
C8_AmountsSumToPacket ==
    (PacketDone /\ Len(Dests) >= 1 /\ tree[Dest].count > 0) =>
        /\ Len(shown) = Len(Dests)
        /\ SumShown(Len(shown)) = packet
        /\ \A j \in 1..Len(shown) :
              /\ shown[j].dest = Key(Dests[j])
              /\ j < Len(shown) =>
                    shown[j].val = DivideApprox(packet * tree[Dests[j]].count, tree[Dest].count)
              /\ j = Len(shown) => shown[j].val = packet - SumShown(j - 1)
        /\ Len(shown) = 1 => shown[1].val = packet

\* Two destinations or more, and the last one got more than its share.
C8_Witness ==
    /\ PacketDone /\ Len(Dests) >= 2 /\ Len(shown) = Len(Dests)
    /\ SumShown(Len(shown)) = packet
    /\ shown[Len(shown)].val >
           DivideApprox(packet * tree[Dests[Len(Dests)]].count, tree[Dest].count)

(* C9: neither procedure hands on an amount below zero or above its batch, *)
(* sum_estimated and the packet's shared-out part stay within the batch,    *)
(* and no subtraction goes below zero.                                      *)
C9_NoWrap ==
    /\ ~wrapped
    /\ \A i \in 1..Len(stack) :
          /\ stack[i].count >= 0 /\ stack[i].count <= batch
          /\ stack[i].sum >= 0 /\ stack[i].sum <= stack[i].count
    /\ \A p \in Subtree(tree, Dest) : tree[p].count >= 0 /\ tree[p].count <= batch
    /\ remaining >= 0 /\ remaining <= packet
    /\ \A j \in 1..Len(shown) :
          /\ shown[j].val >= 0 /\ shown[j].val <= packet
          /\ SumShown(j) <= packet

\* A batch of 3 over shares of 1, 1 and 4: the third estimate of 2 is cut to
\* the 1 that is left, and the packet is shared out over the three.
C9_Witness ==
    /\ PacketDone /\ Len(shown) = 3 /\ packet = MaxPacket
    /\ batch = 3 /\ source = 1 /\ Key(Dest) = 1
    /\ flows[1].hasData
    /\ flows[1].shares[1] = 1 /\ flows[1].shares[2] = 1
    /\ flows[1].shares[INVALID_STATION] = 4
    /\ tree[Dest].count = 3
    /\ CountAt(tree, Append(Dest, INVALID_STATION)) = 1

---------------------------------------------------------------------------
(* tmp of EstimateDestinations: a CargoDataEntry() of its own, whose        *)
(* children are made for the next hops of the shares.                       *)

\* Next hops a flow map may name: stations 1 and 257 have the same low byte.
TmpStations == {1, 2, 257, INVALID_STATION}

\* tmp.InsertOrRetrieve(i->second)
TmpInsert ==
    \E k \in TmpStations :
        /\ fault = "none"
        /\ tree' = InsertOrRetrieve(tree, names, Root, k)
        /\ last' = [op |-> "InsertOrRetrieve", path |-> <<k>>]
        /\ UNCHANGED <<names, apiVars, applied, fault, estVars>>

\* .Update(i->first - prev_count) on a child of tmp
TmpUpdate ==
    \E p \in Children(tree, Root) : \E n \in 1..MaxCount :
        /\ DoUpdate(p, n)
        /\ UNCHANGED applied

NextTmp == TmpInsert \/ TmpUpdate

\* tmp while the loop over the shares fills it.
SpecTmp == InitGrow /\ [][NextTmp]_vars

(* C11: a step InsertOrRetrieve(key) leaves the tree as it is if the node   *)
(* has a child with that key, and otherwise gives the node a child with     *)
(* that key, count 0 and no children, every other count as it was.          *)
C11_InsertOrRetrieve ==
    [][last'.op = "InsertOrRetrieve"
         => LET c == last'.path IN
            IF c \in DOMAIN tree
            THEN tree' = tree
            ELSE /\ DOMAIN tree' = DOMAIN tree \cup {c}
                 /\ tree'[c].count = 0
                 /\ Children(tree', c) = {}
                 /\ \A q \in DOMAIN tree : tree'[q].count = tree[q].count]_vars

---------------------------------------------------------------------------
(* A client of the class that goes on filling a tree after Resort. *)

NextClient == InsertOrRetrieveAct \/ UpdateAct \/ ResortAct

SpecClient == InitGrow /\ [][NextClient]_vars

(* C12: a step InsertOrRetrieve on a node whose children are ordered by     *)
(* count trips the assertion, whether it finds the key or makes a child.    *)
C12_AssertOnCountOrder ==
    [][(last'.op = "InsertOrRetrieve" /\ tree[Parent(last'.path)].stype = "Count")
         => fault' = "assert"]_vars

(* C13: after any sequence of InsertOrRetrieve, Remove and Clear, every     *)
(* node's num_children is the number of nodes below it.                     *)
C13_NumChildrenIsSubtreeSize ==
    \A p \in DOMAIN tree : tree[p].num_children = Cardinality(Subtree(tree, p)) - 1

---------------------------------------------------------------------------
(* CargoSorter::operator() on two entries, for every sorter. *)

\* A station id that belongs to no station, besides StationID::Invalid().
DeletedStation == 3

\* Station ids of the entries compared.
CmpStations == StationKeys \cup {DeletedStation}

\* Cargo types of the entries compared.
CmpCargoes == {0, 1}

CmpEntries(stype) ==
    [key : IF stype = "CargoType" THEN CmpCargoes ELSE CmpStations,
     count : 0..MaxCount,
     cargoKeyed : {stype = "CargoType"}]

Opposite(order) == IF order = SO_ASCENDING THEN SO_DESCENDING ELSE SO_ASCENDING

InitCompare ==
    /\ tree = EmptyTree
    /\ names \in Namings
    /\ applied = (Root :> 0)
    /\ last = NoOp
    /\ fault = "none"
    /\ NoGui
    /\ NoEstimate
    /\ veh_order = NoOrder
    /\ script = NoScript
    /\ \E stype \in {"StationID", "CargoType", "Count", "StationString"} :
       \E order \in SortOrders : \E a, b \in CmpEntries(stype) :
          cmp = [stype |-> stype, order |-> order, a |-> a, b |-> b, done |-> FALSE]

\* The sorter is asked for a against b and for b against a, and so is the
\* sorter of the other direction.
Compare ==
    /\ cmp.stype # "none" /\ ~cmp.done
    /\ cmp' = [stype |-> cmp.stype, order |-> cmp.order, a |-> cmp.a, b |-> cmp.b,
               done |-> TRUE,
               fwd |-> Before(names, cmp.stype, cmp.order, cmp.a, cmp.b),
               bwd |-> Before(names, cmp.stype, cmp.order, cmp.b, cmp.a),
               ofwd |-> Before(names, cmp.stype, Opposite(cmp.order), cmp.a, cmp.b),
               obwd |-> Before(names, cmp.stype, Opposite(cmp.order), cmp.b, cmp.a)]
    /\ UNCHANGED <<tree, names, applied, last, fault, estVars, guiVars, veh_order, script>>

NextCompare == Compare

SpecCompare == InitCompare /\ [][NextCompare]_vars

\* The names of two stations compare as equal.
SameName(st1, st2) == StrNaturalCompare(names[st1], names[st2]) = 0

(* C14: by name, an entry of an invalid station comes after every entry of *)
(* a valid one in ascending order and before it in descending order; two    *)
(* valid stations of one name, and two invalid ones, go by their ids.       *)
C14_InvalidStationLast ==
    (cmp.stype = "StationString" /\ cmp.done) =>
        LET st1 == cmp.a.key
            st2 == cmp.b.key
        IN /\ (~IsValidID(st1) /\ IsValidID(st2)) =>
                 IF cmp.order = SO_ASCENDING
                 THEN ~cmp.fwd /\ cmp.bwd
                 ELSE cmp.fwd /\ ~cmp.bwd
           /\ (IsValidID(st1) /\ IsValidID(st2) /\ SameName(st1, st2)) =>
                 cmp.fwd = SortId(cmp.order, st1, st2)
           /\ (~IsValidID(st1) /\ ~IsValidID(st2)) =>
                 cmp.fwd = SortId(cmp.order, st1, st2)

(* C15: by count, two entries of different counts go by their counts in    *)
(* the sorter's direction, two of one count by their stations' names in the *)
(* same direction, and of two entries of different stations one always goes *)
(* before the other.                                                        *)
C15_CountThenName ==
    (cmp.stype = "Count" /\ cmp.done /\ cmp.a.key # cmp.b.key) =>
        /\ cmp.a.count # cmp.b.count =>
              cmp.fwd = IF cmp.order = SO_ASCENDING
                        THEN cmp.a.count < cmp.b.count
                        ELSE cmp.b.count < cmp.a.count
        /\ cmp.a.count = cmp.b.count =>
              cmp.fwd = SortStation(names, cmp.order, cmp.a.key, cmp.b.key)
        /\ cmp.fwd # cmp.bwd

\* Two valid stations with one count, whose names order them against their ids.
C15_Witness ==
    /\ cmp.stype = "Count" /\ cmp.done
    /\ cmp.a.count = cmp.b.count
    /\ IsValidID(cmp.a.key) /\ IsValidID(cmp.b.key)
    /\ cmp.a.key < cmp.b.key
    /\ StrNaturalCompare(names[cmp.a.key], names[cmp.b.key]) > 0
    /\ cmp.order = SO_ASCENDING /\ ~cmp.fwd /\ cmp.bwd

(* C16: on every axis and for any two entries with different keys, the      *)
(* sorter of one direction puts a before b exactly when the sorter of the   *)
(* other direction puts b before a.                                         *)
C16_DescendingIsReverse ==
    (cmp.stype # "none" /\ cmp.done /\ cmp.a.key # cmp.b.key) =>
        /\ cmp.ofwd = cmp.bwd
        /\ cmp.obwd = cmp.fwd

\* By name, a station that is not valid against one that is.
C16_Witness ==
    /\ cmp.stype = "StationString" /\ cmp.done
    /\ ~IsValidID(cmp.a.key) /\ IsValidID(cmp.b.key)
    /\ cmp.ofwd = cmp.bwd /\ cmp.obwd = cmp.fwd /\ cmp.fwd # cmp.bwd

---------------------------------------------------------------------------
(* Retrieve, as the window uses it on expanded_rows and on the destination  *)
(* cache: trees whose child sets keep the order they were made with.        *)

RetrieveAct ==
    \E p \in DOMAIN tree : \E k \in KeysAt(p) :
        /\ fault = "none"
        /\ Len(p) < NUM_COLUMNS
        /\ LET found == Retrieve(tree, names, p, k) IN
           /\ last' = [op |-> "Retrieve", path |-> Append(p, k), found |-> found]
           /\ fault' = IF found # {} /\ tree[p].stype = "Count" THEN "assert" ELSE "none"
        /\ UNCHANGED <<tree, names, apiVars, applied, estVars>>

NextRetrieve == LeafInsert \/ LeafUpdate \/ RemoveAct \/ RetrieveAct

SpecRetrieve == InitGrow /\ [][NextRetrieve]_vars

C18_ResortTwice ==
    [][(last'.op = "Resort" /\ last'.again)
         => LET p == last'.path IN
            /\ tree' = tree
            /\ ChildSeq(tree', names, p) = ChildSeq(tree, names, p)]_vars

\* A node with two children of one count, re-sorted by count twice.
C18_Witness ==
    /\ last.op = "Resort" /\ last.again
    /\ tree[last.path].stype = "Count"
    /\ \E a, b \in Children(tree, last.path) : a # b /\ tree[a].count = tree[b].count

\* What BuildCargoList has the root gain for the packet: ShowCargo updates the
\* entry it ends at with every amount it is given, and Update carries it up.
ShownTotal == SumShown(Len(shown))

(* C19: in waiting mode the packet's whole count reaches the root, whatever *)
(* the destination cache holds for its origin and next hop, a via entry     *)
(* without destinations included.                                           *)
C19_NoCargoLost == PacketDone => ShownTotal = packet

---------------------------------------------------------------------------
(* ScriptOrder::SetOrderFlags, from script_order.cpp.  Order flags are the  *)
(* bit sets of ScriptOrderFlags; an order keeps its non-stop, load and      *)
(* unload types and its depot type and action bits.  The script stands      *)
(* before the call ("idle"), has a command on its way ("sent"), has had it  *)
(* executed with the callback still to come ("ran"), or is through ("done"). *)

\* ScriptObject::SetCallbackVariable(3, 8)
RetryStart == 8

\* x & y on unsigned values, bit by bit
RECURSIVE And(_, _)
And(x, y) ==
    IF x = 0 \/ y = 0 THEN 0
    ELSE (x % 2) * (y % 2) + 2 * And(x \div 2, y \div 2)

\* The values a ScriptOrderFlags variable takes here: nine flag bits, or OF_INVALID.
FlagValues == 0..511 \cup {65535}

AndTable == [x \in FlagValues |-> [y \in FlagValues |-> And(x, y)]]

BitAnd(x, y) ==
    IF x \in FlagValues /\ y \in FlagValues THEN AndTable[x][y] ELSE And(x, y)

\* x | y
BitOr(x, y) == x + y - BitAnd(x, y)

\* x & ~y
BitClear(x, y) == x - BitAnd(x, y)

\* GB(x, s, n): n bits of x from bit s on
GB(x, s, n) == (x \div (2 ^ s)) % (2 ^ n)

HasAtMostOneBit(x) == x = 0 \/ \E i \in 0..15 : x = 2 ^ i

\* enum ScriptOrderFlags
OF_NONE == 0
OF_NON_STOP_INTERMEDIATE == 1
OF_NON_STOP_DESTINATION == 2
OF_UNLOAD == 4
OF_TRANSFER == 8
OF_NO_UNLOAD == 16
OF_FULL_LOAD == 64
OF_FULL_LOAD_ANY == 96
OF_NO_LOAD == 128
OF_SERVICE_IF_NEEDED == 4
OF_STOP_IN_DEPOT == 8
OF_GOTO_NEAREST_DEPOT == 256
OF_NON_STOP_FLAGS == BitOr(OF_NON_STOP_INTERMEDIATE, OF_NON_STOP_DESTINATION)
OF_UNLOAD_FLAGS == BitOr(OF_TRANSFER, BitOr(OF_UNLOAD, OF_NO_UNLOAD))
OF_LOAD_FLAGS == BitOr(OF_FULL_LOAD_ANY, OF_NO_LOAD)
OF_DEPOT_FLAGS == BitOr(OF_SERVICE_IF_NEEDED, BitOr(OF_STOP_IN_DEPOT, OF_GOTO_NEAREST_DEPOT))
OF_INVALID == 65535

\* The order's bits the functions read.
ODTFB_SERVICE == 1
ODTFB_PART_OF_ORDERS == 2
ODATF_SERVICE_ONLY == 0
ODATFB_HALT == 1
ODATFB_NEAREST_DEPOT == 2

\* enum ModifyOrderFlags data of MOF_DEPOT_ACTION
DA_ALWAYS_GO == 0
DA_SERVICE == 1
DA_STOP == 2

OrderTypes ==
    {"OT_GOTO_STATION", "OT_GOTO_DEPOT", "OT_GOTO_WAYPOINT", "OT_CONDITIONAL", "OT_DUMMY"}

\* The tiles a destination may be; a hangar is a station tile, a depot is not.
Tiles == {"station", "waypoint", "hangar", "depot", "plain", "INVALID_TILE"}

\* IsTileType(t, MP_STATION)
IsStationTile(t) == t \in {"station", "waypoint", "hangar"}

GetOrderTypeByTile(t) ==
    CASE t = "waypoint" -> "OT_GOTO_WAYPOINT"
      [] t \in {"hangar", "depot"} -> "OT_GOTO_DEPOT"
      [] t = "station" -> "OT_GOTO_STATION"
      [] OTHER -> "OT_END"

\* Order::MakeGoToStation, MakeGoToWaypoint, MakeGoToDepot and the setters
\* InsertOrder calls: the fields of the order GetOrderFlags reads.
MakeOrder(type) ==
    [valid |-> TRUE, type |-> type, nonstop |-> 0, load |-> 0, unload |-> 0,
     depot_type |-> 0, depot_action |-> 0]

\* The flag values of the model's orders and requests.
NonStopTypes == {0, 3}
UnloadTypes == {0, 1}
LoadTypes == {0, 2}

\* Bits 2 to 4 of a request: unload or transfer at a station, service or stop
\* at a depot.
WantedBits == {0, 1, 2}

\* The flag sets a script may ask for.
Wants ==
    {n + 4 * u + 32 * l + d : n \in NonStopTypes, u \in WantedBits, l \in LoadTypes,
                              d \in {0, OF_GOTO_NEAREST_DEPOT}}

\* The orders a vehicle may have at the position.
Orders ==
    {[MakeOrder("OT_GOTO_STATION") EXCEPT !.nonstop = n, !.unload = u, !.load = l] :
        n \in NonStopTypes, u \in UnloadTypes, l \in LoadTypes}
    \cup {[MakeOrder("OT_GOTO_DEPOT") EXCEPT !.nonstop = n,
              !.depot_type = ODTFB_PART_OF_ORDERS + s, !.depot_action = a] :
              n \in NonStopTypes, s \in {0, ODTFB_SERVICE},
              a \in {0, ODATFB_HALT, ODATFB_NEAREST_DEPOT}}
    \cup {[MakeOrder("OT_GOTO_WAYPOINT") EXCEPT !.nonstop = n] : n \in NonStopTypes}
    \cup {MakeOrder("OT_CONDITIONAL"), MakeOrder("OT_DUMMY")}

\* GetOrderFlags of the order at the position (NoOrder: no valid position).
GetOrderFlags(o) ==
    IF ~o.valid THEN OF_INVALID
    ELSE IF o.type \in {"OT_CONDITIONAL", "OT_DUMMY"} THEN OF_INVALID
    ELSE LET order_flags == BitOr(OF_NONE, o.nonstop) IN
         CASE o.type = "OT_GOTO_DEPOT" ->
                LET f1 == IF BitAnd(o.depot_type, ODTFB_SERVICE) # 0
                          THEN BitOr(order_flags, OF_SERVICE_IF_NEEDED) ELSE order_flags
                    f2 == IF BitAnd(o.depot_action, ODATFB_HALT) # 0
                          THEN BitOr(f1, OF_STOP_IN_DEPOT) ELSE f1
                IN IF BitAnd(o.depot_action, ODATFB_NEAREST_DEPOT) # 0
                   THEN BitOr(f2, OF_GOTO_NEAREST_DEPOT) ELSE f2
           [] o.type = "OT_GOTO_STATION" ->
                BitOr(BitOr(order_flags, o.load * 32), o.unload * 4)
           [] OTHER -> order_flags

\* GetOrderDestination: a tile of the order's station, depot or waypoint.
GetOrderDestination(o) ==
    IF ~o.valid THEN "INVALID_TILE"
    ELSE CASE o.type = "OT_GOTO_DEPOT" ->
                IF BitAnd(o.depot_action, ODATFB_NEAREST_DEPOT) # 0
                THEN "INVALID_TILE" ELSE "depot"
           [] o.type = "OT_GOTO_STATION" -> "station"
           [] o.type = "OT_GOTO_WAYPOINT" -> "waypoint"
           [] OTHER -> "INVALID_TILE"

AreOrderFlagsValid(destination, order_flags) ==
    LET ot == IF BitAnd(order_flags, OF_GOTO_NEAREST_DEPOT) # 0
              THEN "OT_GOTO_DEPOT" ELSE GetOrderTypeByTile(destination) IN
    CASE ot = "OT_GOTO_STATION" ->
            /\ BitClear(order_flags,
                        BitOr(OF_NON_STOP_FLAGS, BitOr(OF_UNLOAD_FLAGS, OF_LOAD_FLAGS))) = 0
            /\ HasAtMostOneBit(BitAnd(order_flags,
                                      BitOr(OF_TRANSFER, BitOr(OF_UNLOAD, OF_NO_UNLOAD))))
            /\ HasAtMostOneBit(BitAnd(order_flags, BitOr(OF_NO_UNLOAD, OF_NO_LOAD)))
            /\ HasAtMostOneBit(BitAnd(order_flags, BitOr(OF_FULL_LOAD, OF_NO_LOAD)))
            /\ BitAnd(order_flags, OF_FULL_LOAD_ANY) # BitClear(OF_FULL_LOAD_ANY, OF_FULL_LOAD)
      [] ot = "OT_GOTO_DEPOT" ->
            /\ BitClear(order_flags, BitOr(OF_NON_STOP_FLAGS, OF_DEPOT_FLAGS)) = 0
            /\ \/ BitAnd(order_flags, OF_SERVICE_IF_NEEDED) = 0
               \/ BitAnd(order_flags, OF_STOP_IN_DEPOT) = 0
      [] ot = "OT_GOTO_WAYPOINT" -> BitClear(order_flags, OF_NON_STOP_FLAGS) = 0
      [] OTHER -> FALSE

\* The three EnforcePrecondition lines of _SetOrderFlags.
Preconditions(o, w) ==
    /\ o.valid
    /\ AreOrderFlagsValid(GetOrderDestination(o), w)
    /\ BitAnd(w, OF_GOTO_NEAREST_DEPOT) = BitAnd(GetOrderFlags(o), OF_GOTO_NEAREST_DEPOT)

NoCommand == [group |-> "none"]

\* The command _SetOrderFlags issues for the first group that differs.
NextCommand(o, order_flags) ==
    LET current == GetOrderFlags(o) IN
    IF BitAnd(current, OF_NON_STOP_FLAGS) # BitAnd(order_flags, OF_NON_STOP_FLAGS)
    THEN [group |-> "MOF_NON_STOP", value |-> BitAnd(order_flags, OF_NON_STOP_FLAGS)]
    ELSE IF /\ o.type = "OT_GOTO_DEPOT"
            /\ BitAnd(current, OF_DEPOT_FLAGS) # BitAnd(order_flags, OF_DEPOT_FLAGS)
    THEN [group |-> "MOF_DEPOT_ACTION",
          value |-> IF BitAnd(order_flags, OF_STOP_IN_DEPOT) # 0 THEN DA_STOP
                    ELSE IF BitAnd(order_flags, OF_SERVICE_IF_NEEDED) # 0 THEN DA_SERVICE
                    ELSE DA_ALWAYS_GO]
    ELSE IF /\ o.type = "OT_GOTO_STATION"
            /\ BitAnd(current, OF_UNLOAD_FLAGS) # BitAnd(order_flags, OF_UNLOAD_FLAGS)
    THEN [group |-> "MOF_UNLOAD", value |-> BitAnd(order_flags, OF_UNLOAD_FLAGS) \div 4]
    ELSE IF /\ o.type = "OT_GOTO_STATION"
            /\ BitAnd(current, OF_LOAD_FLAGS) # BitAnd(order_flags, OF_LOAD_FLAGS)
    THEN [group |-> "MOF_LOAD", value |-> BitAnd(order_flags, OF_LOAD_FLAGS) \div 32]
    ELSE NoCommand

RetryKept(v) == v

\* int retry = ScriptObject::GetCallbackVariable(3) - 1;
Retry(v) == v - 1

\* _SetOrderFlags with the callback variables of s, on the order o.  asserted
\* is what the assertion before "return true" evaluates to.
Invoke(s, o) ==
    LET retry == Retry(s.retry) IN
    IF retry < 0
    THEN [s EXCEPT !.pc = "done", !.res = FALSE, !.exhausted = TRUE, !.cmd = NoCommand]
    ELSE IF ~Preconditions(o, s.want)
    THEN [s EXCEPT !.retry = retry, !.pc = "done", !.res = FALSE, !.cmd = NoCommand]
    ELSE IF NextCommand(o, s.want) = NoCommand
    THEN [s EXCEPT !.retry = retry, !.pc = "done", !.res = TRUE, !.cmd = NoCommand,
                   !.asserted = (GetOrderFlags(o) = s.want)]
    ELSE [s EXCEPT !.retry = retry, !.pc = "sent", !.res = TRUE,
                   !.cmd = NextCommand(o, s.want), !.issued = @ + 1]

\* The mask of the flag group a modify-order command writes.
GroupField(group) ==
    CASE group = "MOF_NON_STOP" -> OF_NON_STOP_FLAGS
      [] group = "MOF_DEPOT_ACTION" -> OF_DEPOT_FLAGS
      [] group = "MOF_UNLOAD" -> OF_UNLOAD_FLAGS
      [] group = "MOF_LOAD" -> OF_LOAD_FLAGS

\* The order's type keeps the group.
Applies(group, type) ==
    CASE group = "MOF_NON_STOP" -> type \in {"OT_GOTO_STATION", "OT_GOTO_DEPOT", "OT_GOTO_WAYPOINT"}
      [] group = "MOF_DEPOT_ACTION" -> type = "OT_GOTO_DEPOT"
      [] group \in {"MOF_UNLOAD", "MOF_LOAD"} -> type = "OT_GOTO_STATION"

\* CMD_MODIFY_ORDER on the order: the command writes the group it names.
ModifyOrder(o, c) ==
    CASE c.group = "MOF_NON_STOP" -> [o EXCEPT !.nonstop = c.value]
      [] c.group = "MOF_UNLOAD" -> [o EXCEPT !.unload = c.value]
      [] c.group = "MOF_LOAD" -> [o EXCEPT !.load = c.value]
      [] c.group = "MOF_DEPOT_ACTION" ->
            [o EXCEPT !.depot_type = IF c.value = DA_SERVICE
                                     THEN BitOr(@, ODTFB_SERVICE)
                                     ELSE BitClear(@, ODTFB_SERVICE),
                      !.depot_action = IF c.value = DA_STOP
                                       THEN BitOr(@, ODATFB_HALT)
                                       ELSE BitClear(@, ODATFB_HALT)]

InitScript ==
    /\ tree = EmptyTree
    /\ names = [s \in ValidStations |-> 1]
    /\ applied = (Root :> 0)
    /\ last = NoOp
    /\ fault = "none"
    /\ NoEstimate
    /\ NoGui
    /\ cmp = NoCmp
    /\ veh_order \in Orders \cup {NoOrder}
    /\ script = NoScript

\* SetOrderFlags(vehicle_id, order_position, order_flags)
SetOrderFlags ==
    /\ script.pc = "idle"
    /\ \E w \in Wants :
          script' = Invoke([pc |-> "idle", want |-> w, retry |-> RetryStart, issued |-> 0,
                            res |-> FALSE, exhausted |-> FALSE, cmd |-> NoCommand,
                            asserted |-> TRUE],
                           veh_order)
    /\ UNCHANGED <<tree, names, applied, last, fault, estVars, guiVars, cmp, veh_order>>

\* The game executes the command.
CommandRuns ==
    /\ script.pc = "sent"
    /\ veh_order.valid
    /\ Applies(script.cmd.group, veh_order.type)
    /\ veh_order' = ModifyOrder(veh_order, script.cmd)
    /\ script' = [script EXCEPT !.pc = "ran"]
    /\ UNCHANGED <<tree, names, applied, last, fault, estVars, guiVars, cmp>>

\* The game turns the command down: no callback.
CommandFails ==
    /\ script.pc = "sent"
    /\ script' = [script EXCEPT !.pc = "done", !.res = FALSE, !.cmd = NoCommand]
    /\ UNCHANGED <<tree, names, applied, last, fault, estVars, guiVars, cmp, veh_order>>

\* _DoCommandReturnSetOrderFlags
DoCommandReturnSetOrderFlags ==
    /\ script.pc = "ran"
    /\ script' = Invoke(script, veh_order)
    /\ UNCHANGED <<tree, names, applied, last, fault, estVars, guiVars, cmp, veh_order>>

\* Another client changes the order, or takes it away, while the script waits.
OtherClient ==
    /\ script.pc \in {"sent", "ran"}
    /\ veh_order' \in (Orders \cup {NoOrder}) \ {veh_order}
    /\ UNCHANGED <<tree, names, applied, last, fault, estVars, guiVars, cmp, script>>

ScriptStep == SetOrderFlags \/ CommandRuns \/ CommandFails \/ DoCommandReturnSetOrderFlags

NextScript ==
    \/ SetOrderFlags \/ CommandRuns \/ CommandFails \/ DoCommandReturnSetOrderFlags
    \/ OtherClient

\* The script and the game go on; other clients step in as they please.
SpecScript == InitScript /\ [][NextScript]_vars /\ WF_vars(ScriptStep)

(* C20: one call of SetOrderFlags issues at most 8 commands; an invocation *)
(* of _SetOrderFlags that finds the retry counter used up returns false and *)
(* issues none; and the call comes to its end whatever other clients do to  *)
(* the order in between.                                                    *)
C20_AtMostEightCommands ==
    /\ [](script.pc # "idle" =>
            /\ script.issued <= 8
            /\ script.retry >= 0
            /\ script.issued + script.retry <= RetryStart
            /\ script.exhausted =>
                  script.pc = "done" /\ ~script.res /\ script.cmd = NoCommand)
    /\ (script.pc # "idle") ~> (script.pc = "done")

\* Eight commands were issued, and the ninth invocation gave up.
C20_Witness ==
    /\ script.pc = "done" /\ script.exhausted
    /\ script.issued = 8 /\ script.retry = 0

\* The script and the game alone: no other client touches the order.
NextAlone == SetOrderFlags \/ CommandRuns \/ CommandFails \/ DoCommandReturnSetOrderFlags

SpecAlone == InitScript /\ [][NextAlone]_vars

\* The masks of the flag groups _SetOrderFlags compares for an order of the type.
GroupsOf(type) ==
    CASE type = "OT_GOTO_DEPOT" -> {OF_NON_STOP_FLAGS, OF_DEPOT_FLAGS}
      [] type = "OT_GOTO_STATION" -> {OF_NON_STOP_FLAGS, OF_UNLOAD_FLAGS, OF_LOAD_FLAGS}
      [] OTHER -> {OF_NON_STOP_FLAGS}

\* The groups in which the order has what the script asked for.
EqualGroups(o, w) ==
    {g \in GroupsOf(o.type) : BitAnd(GetOrderFlags(o), g) = BitAnd(w, g)}

(* C21: with no other client at work, every command _SetOrderFlags issues  *)
(* makes the group it names equal to the request and leaves the groups that *)
(* were equal as they were, and _SetOrderFlags returns true only when       *)
(* GetOrderFlags gives exactly the requested flags (its final assertion).   *)
C21_ChainReachesAssertion ==
    /\ [][CommandRuns =>
            /\ EqualGroups(veh_order, script.want) \subseteq EqualGroups(veh_order', script.want)
            /\ GroupField(script.cmd.group) \in
                  EqualGroups(veh_order', script.want) \ EqualGroups(veh_order, script.want)
            /\ Cardinality(EqualGroups(veh_order', script.want)) =
                  Cardinality(EqualGroups(veh_order, script.want)) + 1]_vars
    /\ [](script.pc = "done" /\ script.res =>
            script.asserted /\ GetOrderFlags(veh_order) = script.want)

---------------------------------------------------------------------------
(* StationViewWindow::ShowCargo.  The tree filled is the `cargo` entry of   *)
(* OnPaint; expanded_rows is only read.                                     *)

\* The station the window shows (window_number).
WindowStation == 1

\* The six orders of the grouping drop down; the first column is the cargo.
Groupings ==
    {<<"GR_CARGO", "GR_SOURCE", "GR_NEXT", "GR_DESTINATION">>,
     <<"GR_CARGO", "GR_SOURCE", "GR_DESTINATION", "GR_NEXT">>,
     <<"GR_CARGO", "GR_NEXT", "GR_SOURCE", "GR_DESTINATION">>,
     <<"GR_CARGO", "GR_NEXT", "GR_DESTINATION", "GR_SOURCE">>,
     <<"GR_CARGO", "GR_DESTINATION", "GR_SOURCE", "GR_NEXT">>,
     <<"GR_CARGO", "GR_DESTINATION", "GR_NEXT", "GR_SOURCE">>}

\* The id ShowCargo groups by in a column.
GroupKey(grouping, c) ==
    CASE grouping = "GR_CARGO" -> c.cargo
      [] grouping = "GR_SOURCE" -> c.source
      [] grouping = "GR_NEXT" -> c.next
      [] grouping = "GR_DESTINATION" -> c.dest

LevelAppliesAlways(grouping, auto_distributed, c) == TRUE

\* The conditions under which a column gets an entry of its own.
LevelApplies(grouping, auto_distributed, c) ==
    CASE grouping = "GR_CARGO" -> TRUE
      [] grouping = "GR_SOURCE" -> auto_distributed \/ c.source # WindowStation
      [] grouping = "GR_NEXT" -> auto_distributed
      [] grouping = "GR_DESTINATION" -> auto_distributed

\* The loop of ShowCargo from column i on: st is the tree, the entry `data`
\* and `expand`, the latter a set, empty for nullptr.
RECURSIVE ShowCargoLoop(_, _, _, _, _, _)
ShowCargoLoop(st, nm, ex, w, c, i) ==
    IF i > NUM_COLUMNS \/ st.expand = {} THEN st
    ELSE IF ~LevelApplies(w.groupings[i], w.auto_distributed, c)
    THEN ShowCargoLoop(st, nm, ex, w, c, i + 1)
    ELSE LET k == GroupKey(w.groupings[i], c)
             t2 == InsertOrRetrieve(st.t, nm, st.data, k)
             d2 == CHOOSE q \in Retrieve(t2, nm, st.data, k) : TRUE
             e == CHOOSE q \in st.expand : TRUE
         IN ShowCargoLoop([t |-> t2, data |-> d2, expand |-> Retrieve(ex, nm, e, k)],
                          nm, ex, w, c, i + 1)

\* ShowCargo(data, cargo, source, next, dest, count) on the root of t.
ShowCargo(t, nm, ex, w, c) ==
    IF c.count = 0 THEN t
    ELSE LET st == ShowCargoLoop([t |-> t, data |-> Root, expand |-> {Root}], nm, ex, w, c, 1)
         IN Update(st.t, st.data, c.count)

\* The stations of the cargo shown.
ShowStations == {1, 2}

\* The rows below the cargo row a user can have expanded.
ExpandPaths == {<<0>>} \cup {<<0, a>> : a \in ShowStations}
                 \cup {<<0, a, b>> : a, b \in ShowStations}

\* The tree InsertOrRetrieve builds for the paths in S.
TreeOf(S) ==
    [q \in S \cup {Root} |->
        [(IF q = Root THEN RootNode ELSE NewNode) EXCEPT
            !.num_children = Cardinality({r \in S : IsPrefix(q, r) /\ r # q})]]

\* What expanded_rows can be: with a row, every row above it.
ExpandedTrees ==
    {TreeOf(S) : S \in {T \in SUBSET ExpandPaths :
                           \A q \in T : Len(q) > 1 => Parent(q) \in T}}

ShowCalls ==
    [cargo : CargoKeys, source : ShowStations, next : {2}, dest : ShowStations,
     count : 0..1]

InitShow ==
    /\ tree = EmptyTree
    /\ names = [s \in ValidStations |-> 1]
    /\ applied = (Root :> 0)
    /\ last = NoOp
    /\ fault = "none"
    /\ NoEstimate
    /\ cmp = NoCmp
    /\ veh_order = NoOrder
    /\ script = NoScript
    /\ expanded_rows \in ExpandedTrees
    /\ displayed_rows = <<>>
    /\ win \in [mode : {"show"}, groupings : Groupings, auto_distributed : BOOLEAN]
    /\ call = NoCall

\* One call of ShowCargo while a paint builds its tree.
ShowCargoAct ==
    /\ win.mode = "show"
    /\ \E c \in ShowCalls :
          /\ tree[Root].count + c.count <= MaxCount
          /\ tree' = ShowCargo(tree, names, expanded_rows, win, c)
          /\ last' = [op |-> "ShowCargo", path |-> Root, c |-> c]
    /\ UNCHANGED <<names, applied, fault, estVars, apiVars>>

\* The next paint starts with an empty tree.
NewPaint ==
    /\ win.mode = "show"
    /\ tree # EmptyTree
    /\ tree' = EmptyTree
    /\ last' = NoOp
    /\ UNCHANGED <<names, applied, fault, estVars, apiVars>>

NextShow == ShowCargoAct \/ NewPaint

SpecShow == InitShow /\ [][NextShow]_vars

\* The ids of the columns that apply to the cargo shown, in the order of the columns.
RECURSIVE AppliedKeys(_, _, _)
AppliedKeys(w, c, i) ==
    IF i > NUM_COLUMNS THEN <<>>
    ELSE (IF \/ w.groupings[i] = "GR_CARGO"
             \/ w.auto_distributed
             \/ (w.groupings[i] = "GR_SOURCE" /\ c.source # WindowStation)
          THEN <<GroupKey(w.groupings[i], c)>> ELSE <<>>) \o AppliedKeys(w, c, i + 1)

\* The chain the claim describes: the cargo node, then a node per level that
\* applies while the row above it is expanded.
Chain(ex, w, c) ==
    LET keys == AppliedKeys(w, c, 1) IN
    {SubSeq(keys, 1, n) : n \in {m \in 1..Len(keys) :
                                   \A j \in 1..(m - 1) : SubSeq(keys, 1, j) \in DOMAIN ex}}

CountOr0(t, q) == IF q \in DOMAIN t THEN t[q].count ELSE 0

(* C22: ShowCargo with count 0 leaves the tree as it is; with count > 0 it  *)
(* creates the missing nodes of one chain (the cargo node, then a node per  *)
(* grouping level that applies, as long as the row above is in              *)
(* expanded_rows) and no other node, adds count to the root and to the      *)
(* nodes of the chain, and leaves every other count unchanged.              *)
C22_ShowCargoChain ==
    [][ShowCargoAct =>
        LET c == last'.c
            ch == Chain(expanded_rows, win, c)
        IN IF c.count = 0 THEN tree' = tree
           ELSE /\ DOMAIN tree' = DOMAIN tree \cup ch
                /\ \A q \in DOMAIN tree' :
                      tree'[q].count =
                         CountOr0(tree, q) + (IF q \in ch \cup {Root} THEN c.count ELSE 0)]_vars

\* Two different chains were shown, one of them through all four columns.
C22_Witness ==
    /\ last.op = "ShowCargo" /\ last.c.count > 0
    /\ \E q \in DOMAIN tree : Len(q) = NUM_COLUMNS
    /\ \E q \in DOMAIN tree : q # Root /\ tree[q].count < tree[Root].count
    /\ \E q \in DOMAIN tree : Len(q) = 2 /\ Children(tree, q) = {}

---------------------------------------------------------------------------
(* The destination cache of the window: OnInvalidateData, RecalcDestinations *)
(* and the loop of BuildCargoList over the cargoes.  The tree is            *)
(* cached_destinations: cargo, source, next hop, destination.               *)

\* The cargoes of the model (0 .. NUM_CARGO - 1).
ViewCargoes == {0, 1}

\* enum Invalidation
INV_FLOWS == 256
INV_CARGO == 512

\* The station all planned cargo of the model comes from.
Origin == 2

\* The goods entry of the window's station for a cargo: without data, or with
\* a flow map that gives the origin a share of size 1 for every next hop in vias.
NoFlows == [hasData |-> FALSE, vias |-> {}]
FlowMaps == {NoFlows, [hasData |-> TRUE, vias |-> ValidStations]}

\* The goods entry of the other station: without data ("nodata"), without a
\* flow for the origin ("nosource"), or with one share, to the station itself ("self").
Remotes == {"nodata", "nosource", "self"}

\* EstimateDestinations where the next hop's flows end the route at once.
EstimateLeaf(t, nm, remote, src, next, count, dest) ==
    IF IsValidID(next) /\ IsValidID(src)
    THEN CASE remote = "nodata" -> t
           [] remote = "nosource" -> AddToDest(t, nm, dest, INVALID_STATION, count)
           [] remote = "self" -> AddToDest(t, nm, dest, next, count)
    ELSE AddToDest(t, nm, dest, INVALID_STATION, count)

\* The loop of RecalcDestinations over the shares of one origin.
RECURSIVE RecalcShares(_, _, _, _, _, _)
RecalcShares(t, nm, remote, cargo, from, V) ==
    IF V = {} THEN t
    ELSE LET via == CHOOSE v \in V : \A u \in V : v <= u
             source_entry == <<cargo, from>>
             t1 == InsertOrRetrieve(t, nm, source_entry, via)
             via_entry == Append(source_entry, via)
             t2 == IF via = WindowStation
                   THEN AddToDest(t1, nm, via_entry, via, 1)
                   ELSE EstimateLeaf(t1, nm, remote, from, via, 1, via_entry)
         IN RecalcShares(t2, nm, remote, cargo, from, V \ {via})

\* RecalcDestinations(cargo)
RecalcDestinations(t, nm, goods, remote, cargo) ==
    LET t1 == InsertOrRetrieve(t, nm, Root, cargo)
        entry == <<cargo>>
        t2 == Clear(t1, entry)
    IN IF ~goods[cargo].hasData THEN t2
       ELSE IF goods[cargo].vias = {} THEN t2
       ELSE RecalcShares(InsertOrRetrieve(t2, nm, entry, Origin), nm, remote, cargo, Origin,
                         goods[cargo].vias)

\* BuildFlowList(cargo, flows, entry): for every share of the flow map what it
\* retrieves from the cache (found: none of the three entries is missing) and
\* the total of the counts it passes to ShowCargo.
BuildFlowList(t, nm, goods, cargo) ==
    LET source_dest == Retrieve(t, nm, Root, cargo)
        from == Origin
        source_entry == UNION {Retrieve(t, nm, sd, from) : sd \in source_dest}
    IN {LET via_entry == UNION {Retrieve(t, nm, se, via) : se \in source_entry}
        IN [cargo |-> cargo, from |-> from, via |-> via,
            found |-> via_entry # {},
            total |-> SumOver(UNION {Children(t, ve) : ve \in via_entry},
                              [q \in DOMAIN t |-> t[q].count])] : via \in goods[cargo].vias}

\* BuildCargoList(entry, st) from cargo c on: st is the cache, the cargoes
\* recalculated, the cargoes whose entry was there when it was read, and what
\* BuildFlowList came to.
RECURSIVE BuildCargoList(_, _, _, _, _, _)
BuildCargoList(st, nm, goods, remote, current_mode, c) ==
    IF c \notin ViewCargoes THEN st
    ELSE LET need == Retrieve(st.t, nm, Root, c) = {}
             t1 == IF need THEN RecalcDestinations(st.t, nm, goods, remote, c) ELSE st.t
             st1 == [t |-> t1,
                     recalc |-> IF need THEN st.recalc \cup {c} ELSE st.recalc,
                     read |-> IF goods[c].hasData
                              THEN st.read \cup {<<c, Retrieve(t1, nm, Root, c) # {}>>}
                              ELSE st.read,
                     flow |-> IF goods[c].hasData /\ current_mode = "MODE_PLANNED"
                              THEN st.flow \cup BuildFlowList(t1, nm, goods, c)
                              ELSE st.flow]
         IN BuildCargoList(st1, nm, goods, remote, current_mode, c + 1)

InvalidateDataAll(t, nm, data, gui_scope) ==
    IF gui_scope THEN Destroy(t, Root, Children(t, Root)) ELSE t

\* OnInvalidateData(data, gui_scope) on the cache.
InvalidateData(t, nm, data, gui_scope) ==
    IF gui_scope /\ data >= 0 /\ data \in ViewCargoes THEN Remove(t, nm, Root, data) ELSE t

InitInvalidate ==
    /\ tree = EmptyTree
    /\ names = [s \in ValidStations |-> 1]
    /\ applied = (Root :> 0)
    /\ last = NoOp
    /\ fault = "none"
    /\ NoEstimate
    /\ cmp = NoCmp
    /\ veh_order = NoOrder
    /\ script = NoScript
    /\ expanded_rows = EmptyTree
    /\ displayed_rows = <<>>
    /\ win \in [mode : {"cache"}, current_mode : {"MODE_WAITING"},
                goods : [ViewCargoes -> FlowMaps], remote : Remotes,
                recalc : {{}}, read : {{}}, flow : {{}}]
    /\ call = NoCall

OnInvalidateData ==
    /\ win.mode = "cache"
    /\ \E data \in ViewCargoes \cup {INV_FLOWS}, gui_scope \in BOOLEAN :
          /\ tree' = InvalidateData(tree, names, data, gui_scope)
          /\ last' = [op |-> "OnInvalidateData", path |-> Root, data |-> data,
                      gui_scope |-> gui_scope]
    /\ UNCHANGED <<names, applied, fault, estVars, apiVars>>

\* OnPaint as far as the cache goes.
OnPaint ==
    /\ win.mode = "cache"
    /\ tree[Root].num_children < MaxCached
    /\ LET st == BuildCargoList([t |-> tree, recalc |-> {}, read |-> {}, flow |-> {}], names,
                                win.goods, win.remote, win.current_mode, 0)
       IN /\ tree' = st.t
          /\ win' = [win EXCEPT !.recalc = st.recalc, !.read = st.read, !.flow = st.flow]
    /\ last' = [op |-> "OnPaint", path |-> Root]
    /\ UNCHANGED <<names, applied, fault, estVars, cmp, veh_order, script,
                   expanded_rows, displayed_rows, call>>

\* The link graph gives the station other flows for a cargo.
FlowsChange ==
    /\ win.mode = "cache"
    /\ \E c \in ViewCargoes, f \in FlowMaps :
          /\ f # win.goods[c]
          /\ win' = [win EXCEPT !.goods[c] = f]
    /\ last' = [op |-> "FlowsChange", path |-> Root]
    /\ UNCHANGED <<tree, names, applied, fault, estVars, cmp, veh_order, script,
                   expanded_rows, displayed_rows, call>>

NextInvalidate == OnInvalidateData \/ OnPaint \/ FlowsChange

SpecInvalidate == InitInvalidate /\ [][NextInvalidate]_vars

(* C23: OnInvalidateData in GUI scope with a valid cargo removes that       *)
(* cargo's entry from cached_destinations and leaves the entries of the     *)
(* other cargoes with their children and counts; outside GUI scope it       *)
(* changes nothing; a paint runs RecalcDestinations for exactly the cargoes *)
(* without a cached entry, before it reads the entry, and leaves the other  *)
(* cargoes' entries as they were.                                           *)
C23_InvalidateOneCargo ==
    [][/\ OnInvalidateData /\ last'.gui_scope /\ last'.data \in ViewCargoes =>
            /\ DOMAIN tree' = DOMAIN tree \ Subtree(tree, <<last'.data>>)
            /\ \A q \in DOMAIN tree' \ {Root} : tree'[q] = tree[q]
       /\ OnInvalidateData /\ ~last'.gui_scope => tree' = tree
       /\ OnPaint =>
            /\ win'.recalc = {c \in ViewCargoes : <<c>> \notin DOMAIN tree}
            /\ \A c \in ViewCargoes : <<c>> \in DOMAIN tree'
            /\ \A x \in win'.read : x[2]
            /\ \A c \in win'.recalc :
                  {Key(q) : q \in Children(tree', <<c>>)} =
                     IF win.goods[c].hasData /\ win.goods[c].vias # {} THEN {Origin} ELSE {}
            /\ \A c \in ViewCargoes \ win'.recalc :
                  \A q \in Subtree(tree, <<c>>) : q \in DOMAIN tree' /\ tree'[q] = tree[q]]_vars

\* One cargo's entry was just taken out while the other cargo keeps an entry
\* with destinations below it.
C23_Witness ==
    /\ last.op = "OnInvalidateData" /\ last.gui_scope /\ last.data \in ViewCargoes
    /\ <<last.data>> \notin DOMAIN tree
    /\ \E q \in DOMAIN tree : Len(q) = NUM_COLUMNS /\ tree[q].count > 0
    /\ win.recalc # {}

\* The window in planned mode, the flows of the station as they were when the
\* cache was last built.
InitFlow ==
    /\ tree = EmptyTree
    /\ names = [s \in ValidStations |-> 1]
    /\ applied = (Root :> 0)
    /\ last = NoOp
    /\ fault = "none"
    /\ NoEstimate
    /\ cmp = NoCmp
    /\ veh_order = NoOrder
    /\ script = NoScript
    /\ expanded_rows = EmptyTree
    /\ displayed_rows = <<>>
    /\ win \in [mode : {"cache"}, current_mode : {"MODE_PLANNED"},
                goods : [ViewCargoes -> FlowMaps], remote : Remotes,
                recalc : {{}}, read : {{}}, flow : {{}}]
    /\ call = NoCall

NextFlow == OnInvalidateData \/ OnPaint

SpecFlow == InitFlow /\ [][NextFlow]_vars

(* C24: with the cache built from the station's current flow map,           *)
(* BuildFlowList finds the cargo entry, the source entry and the via entry  *)
(* of every share, and the counts it shows for a share add up to the        *)
(* share's size.                                                            *)
C24_FlowListShowsShares ==
    last.op = "OnPaint" => \A x \in win.flow : x.found /\ x.total = 1

---------------------------------------------------------------------------
(* Clicks on the rows of the cargo view: OnPaint fills displayed_rows, a     *)
(* click toggles a row in expanded_rows.  A row keeps a pointer to its       *)
(* parent entry in expanded_rows (filter: a set, empty for nullptr) and is   *)
(* stale once that entry has been deleted.                                   *)

\* The cargo the station has when it is painted: from two sources, via
\* station 2 to station 1.
StationCargo ==
    {[cargo |-> 0, source |-> s, next |-> 2, dest |-> 1, count |-> 1] : s \in ShowStations}

ClickWin ==
    [mode |-> "click", auto_distributed |-> TRUE,
     groupings |-> <<"GR_CARGO", "GR_SOURCE", "GR_NEXT", "GR_DESTINATION">>,
     scroll_to_row |-> -1]

\* BuildCargoList as far as the rows go: ShowCargo for every packet in S.
RECURSIVE ShowAll(_, _, _, _, _)
ShowAll(t, nm, ex, w, S) ==
    IF S = {} THEN t
    ELSE LET c == CHOOSE x \in S : TRUE
         IN ShowAll(ShowCargo(t, nm, ex, w, c), nm, ex, w, S \ {c})

\* filter->Retrieve(...) along the keys, from the entries in F.
RECURSIVE RetrievePath(_, _, _, _)
RetrievePath(ex, nm, F, keys) ==
    IF keys = <<>> \/ F = {} THEN F
    ELSE RetrievePath(ex, nm, UNION {Retrieve(ex, nm, f, Head(keys)) : f \in F}, Tail(keys))

\* SetDisplayedRow(entry) for the entry q of the painted tree.
SetDisplayedRow(ex, nm, q) ==
    [filter |-> RetrievePath(ex, nm, {Root}, Parent(q)), next |-> Key(q), stale |-> FALSE]

\* DrawEntries below p: the rows in the order they are drawn.
RECURSIVE DrawEntries(_, _, _, _, _)
DrawEntries(t, nm, ex, p, todo) ==
    IF todo = <<>> THEN <<>>
    ELSE LET cd == Head(todo)
         IN <<SetDisplayedRow(ex, nm, cd)>>
            \o (IF Len(cd) < NUM_COLUMNS
                THEN DrawEntries(t, nm, ex, cd, ChildSeq(t, nm, cd)) ELSE <<>>)
            \o DrawEntries(t, nm, ex, p, Tail(todo))

\* HandleCargoWaitingClick(filter, next)
Toggle(ex, nm, filter, next) ==
    IF Retrieve(ex, nm, filter, next) # {}
    THEN Remove(ex, nm, filter, next)
    ELSE InsertOrRetrieve(ex, nm, filter, next)

\* The rows whose parent entry a step has deleted.
MarkStale(rows, ex2) ==
    [i \in 1..Len(rows) |->
        [rows[i] EXCEPT !.stale = @ \/ \E f \in rows[i].filter : f \notin DOMAIN ex2]]

InitClick ==
    /\ tree = EmptyTree
    /\ names = [s \in ValidStations |-> 1]
    /\ applied = (Root :> 0)
    /\ last = NoOp
    /\ fault = "none"
    /\ NoEstimate
    /\ cmp = NoCmp
    /\ veh_order = NoOrder
    /\ script = NoScript
    /\ expanded_rows = EmptyTree
    /\ displayed_rows = <<>>
    /\ win = ClickWin
    /\ call = NoCall

\* OnPaint: the tree is built anew and its rows are drawn.
PaintRows ==
    /\ win.mode = "click"
    /\ fault = "none"
    /\ LET t == ShowAll(EmptyTree, names, expanded_rows, win, StationCargo)
       IN /\ tree' = t
          /\ displayed_rows' = DrawEntries(t, names, expanded_rows, Root, ChildSeq(t, names, Root))
    /\ win' = [win EXCEPT !.scroll_to_row = -1]
    /\ last' = [op |-> "OnPaint", path |-> Root]
    /\ UNCHANGED <<names, applied, fault, estVars, cmp, veh_order, script, expanded_rows, call>>

\* HandleCargoWaitingClick(row), rows counted from 0.
Click ==
    /\ win.mode = "click"
    /\ fault = "none"
    /\ \E row \in -1..Len(displayed_rows), ctrl \in BOOLEAN :
          /\ last' = [op |-> "Click", path |-> Root, row |-> row, ctrl |-> ctrl]
          /\ IF row < 0 \/ row >= Len(displayed_rows)
             THEN UNCHANGED <<expanded_rows, displayed_rows, win, fault>>
             ELSE IF ctrl
             THEN /\ win' = [win EXCEPT !.scroll_to_row = row]
                  /\ UNCHANGED <<expanded_rows, displayed_rows, fault>>
             ELSE LET display == displayed_rows[row + 1] IN
                  IF display.stale \/ display.filter = {}
                  THEN \* the entry filter points to is gone
                       /\ fault' = "dangling"
                       /\ expanded_rows' \in {expanded_rows, EmptyTree}
                       /\ UNCHANGED <<displayed_rows, win>>
                  ELSE LET filter == CHOOSE f \in display.filter : TRUE
                           ex2 == Toggle(expanded_rows, names, filter, display.next)
                       IN /\ ex2[Root].num_children <= MaxClicks
                          /\ expanded_rows' = ex2
                          /\ displayed_rows' = MarkStale(displayed_rows, ex2)
                          /\ UNCHANGED <<win, fault>>
    /\ UNCHANGED <<tree, names, applied, estVars, cmp, veh_order, script, call>>

NextClick == PaintRows \/ Click

SpecClick == InitClick /\ [][NextClick]_vars

(* C25: a click without ctrl on a displayed row toggles the row's key under *)
(* the row's parent entry of expanded_rows: a key that is there is removed  *)
(* with every expanded row beneath it, a key that is not there is inserted  *)
(* without children; a click outside the displayed rows or with ctrl leaves *)
(* expanded_rows unchanged.                                                 *)
C25_ClickToggles ==
    [][Click =>
        LET row == last'.row IN
        IF row < 0 \/ row >= Len(displayed_rows) \/ last'.ctrl
        THEN expanded_rows' = expanded_rows
        ELSE LET display == displayed_rows[row + 1]
                 p == Append(CHOOSE f \in display.filter : TRUE, display.next)
             IN /\ display.filter # {}
                /\ fault' = "none"
                /\ IF p \in DOMAIN expanded_rows
                   THEN DOMAIN expanded_rows' = DOMAIN expanded_rows \ Subtree(expanded_rows, p)
                   ELSE /\ DOMAIN expanded_rows' = DOMAIN expanded_rows \cup {p}
                        /\ Children(expanded_rows', p) = {}]_vars

---------------------------------------------------------------------------
(* Order positions.  A vehicle's order list mixes manual and implicit      *)
(* orders; scripts count the manual ones only.  call is                    *)
(* [fn, primary, orders, cur, op, arg, res, back, asserted]: the vehicle   *)
(* (is it primary, its order list, its cur_real_order_index), the function *)
(* called last with its argument, what it returned, and whether the        *)
(* assertion it came to held.                                              *)

ORDER_CURRENT == 255
ORDER_INVALID == -1

\* The order lists of the model, each order manual or implicit.
OrderLists == UNION {[1..n -> {"manual", "implicit"}] : n \in 0..MaxOrders}

\* v->GetNumOrders()
GetNumOrders(ol) == Len(ol)

\* v->GetNumManualOrders()
GetNumManualOrders(ol) == Cardinality({i \in 1..Len(ol) : ol[i] # "implicit"})

\* IsValidVehicleOrder(vehicle_id, order_position)
IsValidVehicleOrder(primary, ol, order_position) ==
    /\ primary
    /\ order_position >= 0
    /\ (order_position < GetNumManualOrders(ol) \/ order_position = ORDER_CURRENT)

\* The filter view's iterator: the first index from i on (counted from 0)
\* that holds a non-implicit order, the end of the list if there is none.
RECURSIVE SkipImplicit(_, _)
SkipImplicit(ol, i) ==
    IF i >= Len(ol) THEN Len(ol)
    ELSE IF ol[i + 1] # "implicit" THEN i
    ELSE SkipImplicit(ol, i + 1)

\* std::ranges::next(it, n, end) on the filter view.
RECURSIVE NextReal(_, _, _)
NextReal(ol, i, n) ==
    IF n = 0 \/ i >= Len(ol) THEN i
    ELSE NextReal(ol, SkipImplicit(ol, i + 1), n - 1)

\* ScriptOrderPositionToRealOrderPosition(vehicle_id, order_position)
ScriptOrderPositionToRealOrderPosition(ol, order_position) ==
    IF order_position = GetNumManualOrders(ol) THEN GetNumOrders(ol)
    ELSE NextReal(ol, SkipImplicit(ol, 0), order_position)

\* std::count_if(first, last, implicit) with last i orders after first.
RECURSIVE CountImplicit(_, _)
CountImplicit(ol, i) ==
    IF i = 0 THEN 0
    ELSE CountImplicit(ol, i - 1) + (IF ol[i] = "implicit" THEN 1 ELSE 0)

RealOrderPositionKept(ol, order_position) == order_position

\* RealOrderPositionToScriptOrderPosition(vehicle_id, order_position)
RealOrderPositionToScriptOrderPosition(ol, order_position) ==
    order_position - CountImplicit(ol, Min(order_position, Len(ol)))

\* ResolveOrderPosition(vehicle_id, order_position): what it returns and
\* whether assert(order_pos < num_manual_orders) held where it was reached.
ResolveOrderPosition(primary, ol, cur, order_position) ==
    LET num_manual_orders == GetNumManualOrders(ol)
        order_pos == RealOrderPositionToScriptOrderPosition(ol, cur)
    IN IF ~primary THEN [res |-> ORDER_INVALID, asserted |-> TRUE]
       ELSE IF num_manual_orders = 0 THEN [res |-> ORDER_INVALID, asserted |-> TRUE]
       ELSE IF order_position = ORDER_CURRENT
       THEN [res |-> order_pos, asserted |-> order_pos < num_manual_orders]
       ELSE [res |-> IF order_position >= 0 /\ order_position < num_manual_orders
                     THEN order_position ELSE ORDER_INVALID,
             asserted |-> TRUE]

\* A vehicle with its orders; cur_real_order_index is an index of the list
\* (0 in an empty one).
InitPosition ==
    /\ tree = EmptyTree
    /\ names = [s \in ValidStations |-> 1]
    /\ applied = (Root :> 0)
    /\ last = NoOp
    /\ fault = "none"
    /\ NoEstimate
    /\ cmp = NoCmp
    /\ veh_order = NoOrder
    /\ script = NoScript
    /\ expanded_rows = EmptyTree
    /\ displayed_rows = <<>>
    /\ win = NoWin
    /\ \E primary \in BOOLEAN, ol \in OrderLists :
          \E cur \in {i \in 0..MaxOrders : i < Len(ol) \/ i = 0} :
             call = [fn |-> "position", primary |-> primary, orders |-> ol, cur |-> cur,
                     op |-> "none", arg |-> 0, res |-> 0, back |-> 0, asserted |-> TRUE]

\* A caller converts a valid script position (or the position one past the
\* last manual order) to the list index and back.
ConvertPosition ==
    /\ call.fn = "position"
    /\ \E p \in 0..GetNumManualOrders(call.orders) :
          /\ p = GetNumManualOrders(call.orders) \/ IsValidVehicleOrder(call.primary, call.orders, p)
          /\ LET real == ScriptOrderPositionToRealOrderPosition(call.orders, p)
             IN call' = [call EXCEPT !.op = "convert", !.arg = p, !.res = real,
                            !.back = RealOrderPositionToScriptOrderPosition(call.orders, real),
                            !.asserted = TRUE]
    /\ UNCHANGED <<tree, names, applied, last, fault, estVars, cmp, veh_order, script,
                   expanded_rows, displayed_rows, win>>

\* A script calls ResolveOrderPosition.
ResolvePosition ==
    /\ call.fn = "position"
    /\ \E p \in (-1..(MaxOrders + 1)) \cup {ORDER_CURRENT} :
          LET r == ResolveOrderPosition(call.primary, call.orders, call.cur, p)
          IN call' = [call EXCEPT !.op = "resolve", !.arg = p, !.res = r.res,
                         !.back = 0, !.asserted = r.asserted]
    /\ UNCHANGED <<tree, names, applied, last, fault, estVars, cmp, veh_order, script,
                   expanded_rows, displayed_rows, win>>

NextPosition == ConvertPosition \/ ResolvePosition

SpecPosition == InitPosition /\ [][NextPosition]_vars

\* The number of non-implicit orders of ol before index i (counted from 0).
ManualBefore(ol, i) == Cardinality({j \in 1..i : ol[j] # "implicit"})

(* C26: for every script position p with 0 <= p < number of manual orders,  *)
(* ScriptOrderPositionToRealOrderPosition(p) is the list index of a         *)
(* non-implicit order with exactly p non-implicit orders before it, and     *)
(* RealOrderPositionToScriptOrderPosition of that index is p again.         *)
C26_PositionRoundTrip ==
    (call.fn = "position" /\ call.op = "convert" /\ call.arg < GetNumManualOrders(call.orders))
        => /\ call.res \in 0..(Len(call.orders) - 1)
           /\ call.orders[call.res + 1] # "implicit"
           /\ ManualBefore(call.orders, call.res) = call.arg
           /\ call.back = call.arg

\* A manual order behind implicit ones is converted: the index is larger
\* than the position.
C26_Witness ==
    /\ call.fn = "position"
    /\ call.op = "convert"
    /\ call.arg >= 1
    /\ call.arg < GetNumManualOrders(call.orders)
    /\ call.res > call.arg + 1
    /\ call.back = call.arg

(* C27: ResolveOrderPosition returns ORDER_INVALID or a position p with     *)
(* 0 <= p < number of manual orders: ORDER_INVALID for a non-primary        *)
(* vehicle, for a vehicle without manual orders and for a position out of   *)
(* range; for ORDER_CURRENT the manual index of the order at                *)
(* cur_real_order_index, and the assertion order_pos < num_manual_orders    *)
(* holds whenever cur_real_order_index is an index of the list.             *)
C27_ResolveInRange ==
    (call.fn = "position" /\ call.op = "resolve")
        => LET n == GetNumManualOrders(call.orders) IN
           /\ call.res = ORDER_INVALID \/ (0 <= call.res /\ call.res < n)
           /\ (~call.primary \/ n = 0) => call.res = ORDER_INVALID
           /\ (call.arg # ORDER_CURRENT /\ (call.arg < 0 \/ call.arg >= n))
                 => call.res = ORDER_INVALID
           /\ (call.primary /\ n > 0 /\ call.arg = ORDER_CURRENT)
                 => /\ call.res = ManualBefore(call.orders, call.cur)
                    /\ call.asserted

---------------------------------------------------------------------------
(* InsertOrder and what GetOrderFlags reads back.  call is                 *)
(* [fn, aircraft, orders, op, pos, tile, flags, ok, at, order, arg, res]:   *)
(* the vehicle (an aircraft or not, its order list), the function called   *)
(* last, InsertOrder's arguments and result, the list index and the fields *)
(* of the order it inserted, GetOrderFlags' position and what it returned. *)

\* CMD_INSERT_ORDER: the list with one more manual order at index real.
InsertAt(ol, real) ==
    [i \in 1..(Len(ol) + 1) |->
        IF i <= real THEN ol[i] ELSE IF i = real + 1 THEN "manual" ELSE ol[i - 1]]

\* The switch of InsertOrder: the order it makes, NoOrder (not valid) where
\* it returns false.  A depot order gets onsf as its non-stop type.
InsertOrderSwitch(aircraft, destination, order_flags) ==
    LET ot == IF BitAnd(order_flags, OF_GOTO_NEAREST_DEPOT) # 0
              THEN "OT_GOTO_DEPOT" ELSE GetOrderTypeByTile(destination)
        nearest == BitAnd(order_flags, OF_GOTO_NEAREST_DEPOT) # 0
    IN CASE ot = "OT_GOTO_DEPOT" ->
              LET odtf == BitOr(ODTFB_PART_OF_ORDERS,
                                IF BitAnd(order_flags, OF_SERVICE_IF_NEEDED) # 0
                                THEN ODTFB_SERVICE ELSE 0)
                  odaf == BitOr(ODATF_SERVICE_ONLY,
                                IF BitAnd(order_flags, OF_STOP_IN_DEPOT) # 0
                                THEN ODATFB_HALT ELSE 0)
                  onsf == IF BitAnd(order_flags, OF_NON_STOP_INTERMEDIATE) # 0 THEN 1 ELSE 0
              IN IF ~nearest /\ aircraft # IsStationTile(destination)
                 THEN NoOrder
                 ELSE [MakeOrder("OT_GOTO_DEPOT") EXCEPT
                          !.depot_type = odtf,
                          !.depot_action = IF nearest THEN BitOr(odaf, ODATFB_NEAREST_DEPOT)
                                           ELSE odaf,
                          !.nonstop = onsf]
         [] ot = "OT_GOTO_STATION" ->
              [MakeOrder("OT_GOTO_STATION") EXCEPT
                  !.load = GB(order_flags, 5, 3),
                  !.unload = GB(order_flags, 2, 3)]
         [] ot = "OT_GOTO_WAYPOINT" -> MakeOrder("OT_GOTO_WAYPOINT")
         [] OTHER -> NoOrder

\* InsertOrder without its SetNonStopType call.
InsertOrderNoNonStop(aircraft, destination, order_flags) ==
    InsertOrderSwitch(aircraft, destination, order_flags)

\* The order InsertOrder hands to the command: the switch's order with
\* SetNonStopType(GB(order_flags, 0, 2)).
InsertOrder(aircraft, destination, order_flags) ==
    LET order == InsertOrderSwitch(aircraft, destination, order_flags)
    IN IF order.valid THEN [order EXCEPT !.nonstop = GB(order_flags, 0, 2)] ELSE order

\* ResolveOrder(vehicle_id, order_position) for a position of the list: the
\* order InsertOrder put there, a void order for the orders that were there
\* before, NoOrder for nullptr.
ResolveOrder(c, order_position) ==
    LET index == NextReal(c.orders, SkipImplicit(c.orders, 0), order_position)
    IN IF index >= Len(c.orders) THEN NoOrder
       ELSE IF index = c.at THEN c.order
       ELSE MakeOrder("OT_DUMMY")

\* GetOrderFlags(vehicle_id, order_position)
GetOrderFlagsAt(c, order_position) ==
    IF ~IsValidVehicleOrder(TRUE, c.orders, order_position) THEN OF_INVALID
    ELSE GetOrderFlags(ResolveOrder(c, order_position))

\* The order lists of the vehicles InsertOrder is called for.
InsertLists == {ol \in OrderLists : Len(ol) <= 2}

\* The flag sets a script may pass.
InsertFlags == 0..511

InitInsert ==
    /\ tree = EmptyTree
    /\ names = [s \in ValidStations |-> 1]
    /\ applied = (Root :> 0)
    /\ last = NoOp
    /\ fault = "none"
    /\ NoEstimate
    /\ cmp = NoCmp
    /\ veh_order = NoOrder
    /\ script = NoScript
    /\ expanded_rows = EmptyTree
    /\ displayed_rows = <<>>
    /\ win = NoWin
    /\ \E aircraft \in BOOLEAN, ol \in InsertLists :
          call = [fn |-> "insert", aircraft |-> aircraft, orders |-> ol, op |-> "none",
                  pos |-> 0, tile |-> "INVALID_TILE", flags |-> 0, ok |-> FALSE,
                  at |-> -1, order |-> NoOrder, arg |-> 0, res |-> OF_INVALID]

\* InsertOrder(vehicle_id, order_position, destination, order_flags) for a
\* primary vehicle; the command inserts the order or fails.
InsertOrderAct ==
    /\ call.fn = "insert"
    /\ call.op = "none"
    /\ \E p \in -1..(Len(call.orders) + 1), destination \in Tiles,
          order_flags \in InsertFlags, done \in BOOLEAN :
          LET order == InsertOrder(call.aircraft, destination, order_flags)
              pre == /\ p >= 0
                     /\ p <= GetNumManualOrders(call.orders)
                     /\ AreOrderFlagsValid(destination, order_flags)
              real == ScriptOrderPositionToRealOrderPosition(call.orders, p)
          IN IF pre /\ order.valid /\ done
             THEN call' = [call EXCEPT !.op = "InsertOrder", !.pos = p, !.tile = destination,
                              !.flags = order_flags, !.ok = TRUE, !.at = real,
                              !.order = order, !.orders = InsertAt(call.orders, real)]
             ELSE call' = [call EXCEPT !.op = "InsertOrder", !.ok = FALSE]
    /\ UNCHANGED <<tree, names, applied, last, fault, estVars, cmp, veh_order, script,
                   expanded_rows, displayed_rows, win>>

\* GetOrderFlags(vehicle_id, order_position) after the insertion.
GetOrderFlagsAct ==
    /\ call.fn = "insert"
    /\ call.op = "InsertOrder"
    /\ \E p \in 0..MaxOrders :
          call' = [call EXCEPT !.op = "GetOrderFlags", !.arg = p,
                      !.res = GetOrderFlagsAt(call, p)]
    /\ UNCHANGED <<tree, names, applied, last, fault, estVars, cmp, veh_order, script,
                   expanded_rows, displayed_rows, win>>

NextInsert == InsertOrderAct \/ GetOrderFlagsAct

SpecInsert == InitInsert /\ [][NextInsert]_vars

---------------------------------------------------------------------------
(* ScriptCompany.  call is [fn, companies, current, loan, max_loan, money,  *)
(* op, arg, res, ok, asserted, cmd, done]: the companies that exist,        *)
(* _current_company, the current company's current_loan, maximum loan and   *)
(* available money (infinite_money is off), the function called last with   *)
(* its argument and result (res a CompanyID, ok a bool), whether the        *)
(* assertions it came to held, the command it issued and whether that was   *)
(* carried out.                                                             *)

\* ScriptCompany::CompanyID and ::CompanyID values.
COMPANY_INVALID == -1
COMPANY_SELF == 254
COMPANY_SPECTATOR == 255
CompanyIDInvalid == 255
OWNER_DEITY == 18
LOAN_INTERVAL == 10000

\* The company numbers of the model; the last one is never founded.
CompanyNumbers == 0..MaxCompany

\* What a script can pass as a CompanyID.
ScriptCompanyIDs == CompanyNumbers \cup {COMPANY_SELF, COMPANY_SPECTATOR, COMPANY_INVALID}

\* Company::IsValidID(id)
IsValidCompanyID(c, id) == id \in c.companies

\* FromScriptCompanyID(company): the ::CompanyID, and whether its assertion held.
FromScriptCompanyID(company) ==
    [res |-> IF company = COMPANY_INVALID THEN CompanyIDInvalid ELSE company,
     asserted |-> company # COMPANY_SELF /\ company # COMPANY_SPECTATOR]

\* ToScriptCompanyID(company)
ToScriptCompanyID(company) ==
    IF company = CompanyIDInvalid THEN COMPANY_INVALID ELSE company

\* ResolveCompanyID(company): what it returns where it returns, and whether
\* the assertion of FromScriptCompanyID held.
ResolveCompanyID(c, company) ==
    IF company = COMPANY_SELF
    THEN [res |-> IF ~IsValidCompanyID(c, c.current) THEN COMPANY_INVALID
                  ELSE ToScriptCompanyID(c.current),
          asserted |-> TRUE]
    ELSE LET id == FromScriptCompanyID(company)
         IN [res |-> IF IsValidCompanyID(c, id.res) THEN company ELSE COMPANY_INVALID,
             asserted |-> id.asserted]

\* GetBankBalance(company) for the current company.
GetBankBalance(c, company) ==
    IF ResolveCompanyID(c, company).res = COMPANY_INVALID THEN -1 ELSE c.money

\* GetLoanAmount()
GetLoanAmount(c) ==
    IF ResolveCompanyID(c, COMPANY_SELF).res = COMPANY_INVALID THEN -1 ELSE c.loan

\* GetMaxLoanAmount(); the company's maximum loan is the economy's.
GetMaxLoanAmount(c) ==
    IF c.current = OWNER_DEITY THEN c.max_loan
    ELSE IF ResolveCompanyID(c, COMPANY_SELF).res = COMPANY_INVALID THEN -1
    ELSE c.max_loan

\* GetLoanInterval()
GetLoanInterval == LOAN_INTERVAL

NoLoanCommand == [name |-> "none", amount |-> 0]

\* abs(x)
Abs(x) == IF x < 0 THEN -x ELSE x

\* SetLoanAmount that always asks for an increase.
SetLoanAmountIncrease(c, loan) ==
    IF ~IsValidCompanyID(c, c.current) THEN [res |-> FALSE, cmd |-> NoLoanCommand]
    ELSE IF ~(loan >= 0) THEN [res |-> FALSE, cmd |-> NoLoanCommand]
    ELSE IF ~(loan % GetLoanInterval = 0) THEN [res |-> FALSE, cmd |-> NoLoanCommand]
    ELSE IF ~(loan <= GetMaxLoanAmount(c)) THEN [res |-> FALSE, cmd |-> NoLoanCommand]
    ELSE IF ~(loan - GetLoanAmount(c) + GetBankBalance(c, COMPANY_SELF) >= 0)
    THEN [res |-> FALSE, cmd |-> NoLoanCommand]
    ELSE IF loan = GetLoanAmount(c) THEN [res |-> TRUE, cmd |-> NoLoanCommand]
    ELSE [res |-> TRUE,
          cmd |-> [name |-> "CMD_INCREASE_LOAN", amount |-> Abs(loan - GetLoanAmount(c))]]

\* SetLoanAmount(loan) up to its command: the command it issues, and what it
\* returns where it issues none (res is the command's result otherwise).
SetLoanAmount(c, loan) ==
    IF ~IsValidCompanyID(c, c.current) THEN [res |-> FALSE, cmd |-> NoLoanCommand]
    ELSE IF ~(loan >= 0) THEN [res |-> FALSE, cmd |-> NoLoanCommand]
    ELSE IF ~(loan % GetLoanInterval = 0) THEN [res |-> FALSE, cmd |-> NoLoanCommand]
    ELSE IF ~(loan <= GetMaxLoanAmount(c)) THEN [res |-> FALSE, cmd |-> NoLoanCommand]
    ELSE IF ~(loan - GetLoanAmount(c) + GetBankBalance(c, COMPANY_SELF) >= 0)
    THEN [res |-> FALSE, cmd |-> NoLoanCommand]
    ELSE IF loan = GetLoanAmount(c) THEN [res |-> TRUE, cmd |-> NoLoanCommand]
    ELSE LET amount == Abs(loan - GetLoanAmount(c))
         IN IF loan > GetLoanAmount(c)
            THEN [res |-> TRUE, cmd |-> [name |-> "CMD_INCREASE_LOAN", amount |-> amount]]
            ELSE [res |-> TRUE, cmd |-> [name |-> "CMD_DECREASE_LOAN", amount |-> amount]]

\* CMD_INCREASE_LOAN and CMD_DECREASE_LOAN with LoanCommand::Amount: the
\* loan and the money of the company after the command.
LoanCommand(c, cmd) ==
    IF cmd.name = "CMD_INCREASE_LOAN"
    THEN [c EXCEPT !.loan = @ + cmd.amount, !.money = @ + cmd.amount]
    ELSE [c EXCEPT !.loan = @ - cmd.amount, !.money = @ - cmd.amount]

\* The amounts of the model: loans in steps of the loan interval, the money
\* at hand from one interval in debt to one interval in hand.
LoanAmounts == {i * LOAN_INTERVAL : i \in 0..MaxLoanSteps}
MoneyAmounts == {(i * LOAN_INTERVAL) \div 2 : i \in -2..2}
LoanRequests == {-LOAN_INTERVAL} \cup {(i * LOAN_INTERVAL) \div 2 : i \in 0..(2 * MaxLoanSteps + 2)}

InitCompany ==
    /\ tree = EmptyTree
    /\ names = [s \in ValidStations |-> 1]
    /\ applied = (Root :> 0)
    /\ last = NoOp
    /\ fault = "none"
    /\ NoEstimate
    /\ cmp = NoCmp
    /\ veh_order = NoOrder
    /\ script = NoScript
    /\ expanded_rows = EmptyTree
    /\ displayed_rows = <<>>
    /\ win = NoWin
    /\ \E companies \in SUBSET (CompanyNumbers \ {MaxCompany}) :
       \E current \in companies \cup {OWNER_DEITY} :
       \E loan \in LoanAmounts, max_loan \in LoanAmounts \ {0}, money \in MoneyAmounts :
          call = [fn |-> "company", companies |-> companies, current |-> current,
                  loan |-> loan, max_loan |-> max_loan, money |-> money,
                  op |-> "none", arg |-> 0, res |-> COMPANY_INVALID, ok |-> FALSE,
                  asserted |-> TRUE, cmd |-> NoLoanCommand, done |-> FALSE]

\* A script calls ResolveCompanyID(company).
ResolveCompanyIDAct ==
    /\ call.fn = "company"
    /\ \E company \in ScriptCompanyIDs :
          LET r == ResolveCompanyID(call, company)
          IN call' = [call EXCEPT !.op = "ResolveCompanyID", !.arg = company, !.res = r.res,
                         !.ok = FALSE, !.asserted = r.asserted, !.cmd = NoLoanCommand,
                         !.done = FALSE]
    /\ UNCHANGED <<tree, names, applied, last, fault, estVars, cmp, veh_order, script,
                   expanded_rows, displayed_rows, win>>

\* A script calls SetLoanAmount(loan); the command it issues is carried out
\* or fails.
SetLoanAmountAct ==
    /\ call.fn = "company"
    /\ \E loan \in LoanRequests, done \in BOOLEAN :
          LET r == SetLoanAmount(call, loan)
              c == [call EXCEPT !.op = "SetLoanAmount", !.arg = loan, !.asserted = TRUE,
                       !.res = COMPANY_INVALID, !.cmd = r.cmd]
          IN IF r.cmd.name = "none"
             THEN call' = [c EXCEPT !.ok = r.res, !.done = FALSE]
             ELSE IF done
             THEN call' = [LoanCommand(c, r.cmd) EXCEPT !.ok = TRUE, !.done = TRUE]
             ELSE call' = [c EXCEPT !.ok = FALSE, !.done = FALSE]
    /\ UNCHANGED <<tree, names, applied, last, fault, estVars, cmp, veh_order, script,
                   expanded_rows, displayed_rows, win>>

NextCompany == ResolveCompanyIDAct \/ SetLoanAmountAct

SpecCompany == InitCompany /\ [][NextCompany]_vars

(* C29: for every CompanyID a script can pass (a company number,            *)
(* COMPANY_SELF, COMPANY_SPECTATOR, COMPANY_INVALID), ResolveCompanyID      *)
(* returns without tripping the assertion of FromScriptCompanyID, and its   *)
(* result is COMPANY_INVALID or the id of an existing company.              *)
C29_ResolveNeverAsserts ==
    (call.fn = "company" /\ call.op = "ResolveCompanyID")
        => /\ call.asserted
           /\ call.res = COMPANY_INVALID \/ call.res \in call.companies

\* The preconditions of SetLoanAmount for the request loan in the state c.
LoanPreconditions(c, loan) ==
    /\ loan >= 0
    /\ loan % LOAN_INTERVAL = 0
    /\ loan <= c.max_loan
    /\ loan - c.loan + c.money >= 0

\* What C30 says of every call but the one with loan equal to the current
\* loan: the command, its amount, its effect, and the failed preconditions.
LoanCommandAsClaimed ==
    LET loan == call'.arg IN
    /\ call'.cmd.name # "none" => LoanPreconditions(call, loan) /\ loan # call.loan
    /\ (call'.cmd.name # "none" /\ loan > call.loan)
          => call'.cmd = [name |-> "CMD_INCREASE_LOAN", amount |-> loan - call.loan]
    /\ (call'.cmd.name # "none" /\ ~(loan > call.loan))
          => call'.cmd = [name |-> "CMD_DECREASE_LOAN", amount |-> call.loan - loan]
    /\ call'.done => call'.loan = loan
    /\ ~call'.done => call'.loan = call.loan /\ call'.money = call.money
    /\ ~LoanPreconditions(call, loan) => ~call'.ok /\ call'.cmd.name = "none"

(* C30 as written: SetLoanAmount(loan) issues a command only when all its   *)
(* preconditions hold and loan differs from the current loan, an increase   *)
(* by loan - current when loan > current and a decrease by current - loan   *)
(* otherwise, and a successful command leaves the loan at loan; when loan   *)
(* equals the current loan it returns true and issues no command; on any    *)
(* failed precondition it returns false and issues no command.              *)
C30_SetLoanAmount ==
    [][(call'.op = "SetLoanAmount" /\ IsValidCompanyID(call, call.current)) =>
          /\ LoanCommandAsClaimed
          /\ call'.arg = call.loan => call'.ok /\ call'.cmd.name = "none"]_vars

(* C30, amended: as above, but loan equal to the current loan returns true  *)
(* only when the preconditions hold; with a failed precondition the call    *)
(* returns false also then.                                                 *)
C30_SetLoanAmountChecked ==
    [][(call'.op = "SetLoanAmount" /\ IsValidCompanyID(call, call.current)) =>
          /\ LoanCommandAsClaimed
          /\ (call'.arg = call.loan /\ LoanPreconditions(call, call.loan))
                => call'.ok /\ call'.cmd.name = "none"]_vars

\* A loan was paid back in part: a decrease was issued and carried out.
C30_Witness ==
    /\ call.fn = "company"
    /\ call.op = "SetLoanAmount"
    /\ call.cmd.name = "CMD_DECREASE_LOAN"
    /\ call.done
    /\ call.ok
    /\ call.loan = call.arg
    /\ call.loan > 0

=============================================================================
